---- MODULE Spec2Model ----
(***************************************************************************)
(* A model of backy2: the SQL meta backend with its reference counter      *)
(* (src/backy2/meta_backends/sql.py) and the Backy engine with its own     *)
(* SQLBackend and the file data backend (src/backy2/backy.py).             *)
(***************************************************************************)
EXTENDS Integers, Sequences, FiniteSets, TLC

(***************************************************************************)
(* Bounds of the model.                                                    *)
(***************************************************************************)
MaxVersions == 2        \* version uids minted by set_version
MaxTime == 2            \* the clock stops here
MaxImports == 2         \* import_ calls
BlockSize == 2          \* Backy's block_size (4 MiB by default), scaled down
MaxSrcLen == 3          \* longest source file, in bytes
MaxBlobs == 4           \* blob uids minted by the data backend
MaxDamage == 2          \* times a blob is damaged from outside
MaxHintOffset == 4
MaxHintLength == 3
MaxDebt == 2
LfSize == 4              \* LargeFileBackend's lf_size (4 GiB by default), scaled down
MaxLfs == 2             \* large files on disk
DeleteBatch == 2         \* rows of one batch of get_delete_candidates (100), scaled down
MaxSetBlocks == 2        \* set_block calls of one session
MaxLfSaves == 3         \* save calls of the large-file backend

\* Python's None, and the empty string the csv module writes for it.
None == "None"
Empty == ""

UidNames == <<"u1", "u2", "u3", "u4", "u5", "u6", "u7", "u8">>
VersionUidNames == <<"v1", "v2", "v3", "v4", "v5", "v6">>
HashNames == <<"h1", "h2", "h3", "h4", "h5", "h6", "h7", "h8", "h9", "h10",
               "h11", "h12", "h13", "h14", "h15", "h16", "h17", "h18", "h19", "h20",
               "h21", "h22", "h23", "h24", "h25", "h26", "h27", "h28", "h29", "h30", "h31">>

VARIABLES
    versions,           \* table versions: uid -> [name, size, size_bytes, valid]
    blocks,             \* table blocks: <<version_uid, id>> -> [uid, checksum, size, valid]
    block_refcounter,   \* table block_refcounter: uid -> [refs, modified]
    minted,             \* number of version uids minted so far (uuid1 never repeats)
    now,                \* the clock
    dump,               \* the file export writes and import_ reads (NoFile when absent)
    imports,            \* number of import_ calls so far
    yielded,            \* uids the last get_delete_candidates run handed out
    blobs,              \* the data backend: uid -> bytes of the blob
    blob_minted,        \* number of blob uids minted so far
    job,                \* the backup in progress (NoJob when none)
    history,            \* per version made by backup: its source, hints and base
    damaged,            \* number of times a blob was damaged from outside
    invalidated,        \* the last set_blocks_invalid call and what it returned
    utcoffset,          \* local time of the Python process minus the database's time
    lf,                 \* the large files on disk and the LargeFileBackend objects
    fl,                 \* the lock file of one path and the processes that call flock on it
    sess,               \* the sessions of two processes on one database, inside set_block
    gen                 \* the generator get_delete_candidates returned, batch by batch

vars == <<versions, blocks, block_refcounter, minted, now, dump, imports, yielded,
          blobs, blob_minted, job, history, damaged, invalidated, utcoffset,
          lf, fl, sess, gen>>

\* The variables only the engine of backy.py uses, and those only sql.py uses.
engineVars == <<blobs, blob_minted, job, history, damaged>>
otherVars == <<lf, fl, sess, gen>>
metaVars == <<block_refcounter, now, dump, imports, yielded, invalidated, utcoffset, otherVars>>

NoFile == [signature |-> "nofile"]
NoJob == [phase |-> "none"]
NoCall == [affected |-> {}, todo |-> {}]

\* Python truthiness of a uid: None and '' are false.
Truthy(uid) == uid # None /\ uid # Empty

\* The empty table.
EmptyTable == [x \in {} |-> 0]

RECURSIVE SetToSeq(_)
\* The elements of a set of integers in increasing order.
SetToSeq(S) ==
    IF S = {} THEN <<>>
    ELSE LET m == CHOOSE x \in S : \A y \in S : x <= y
         IN <<m>> \o SetToSeq(S \ {m})

\* The meta store as one value: what a session reads and writes.
DB == [versions |-> versions, blocks |-> blocks, rc |-> block_refcounter]

\* The ids of the block rows of a version, in primary-key order.
BlockIdsOf(b, version_uid) == SetToSeq({k[2] : k \in {k \in DOMAIN b : k[1] = version_uid}})

(***************************************************************************)
(* sql.py: the reference counter.                                          *)
(***************************************************************************)

\* ref_del with the decrement left out.
ref_del_no_decrement(rc, uid, t) ==
    IF ~Truthy(uid) \/ uid \in DOMAIN rc THEN [ok |-> TRUE, rc |-> rc]
    ELSE [ok |-> FALSE, rc |-> rc]

\* ref_del: UPDATE refs = refs - 1; KeyError when no row was updated.
ref_del(rc, uid, t) ==
    IF ~Truthy(uid) THEN [ok |-> TRUE, rc |-> rc]
    ELSE IF uid \in DOMAIN rc
         THEN [ok |-> TRUE,
               rc |-> [rc EXCEPT ![uid] = [refs |-> @.refs - 1, modified |-> t]]]
         ELSE [ok |-> FALSE, rc |-> rc]

\* ref_add: UPDATE refs = refs + 1, or INSERT (uid, refs = 1) when no row was updated.
ref_add(rc, uid, t) ==
    IF ~Truthy(uid) THEN rc
    ELSE IF uid \in DOMAIN rc
         THEN [rc EXCEPT ![uid] = [refs |-> @.refs + 1, modified |-> t]]
         ELSE rc @@ (uid :> [refs |-> 1, modified |-> t])

(***************************************************************************)
(* sql.py: versions and blocks.                                            *)
(***************************************************************************)

\* set_version: mints uid number n and inserts the version row.
set_version(db, n, version_name, size, size_bytes, valid) ==
    [db EXCEPT !.versions = @ @@ (VersionUidNames[n] :>
        [name |-> version_name, size |-> size, size_bytes |-> size_bytes, valid |-> valid])]

set_version_invalid(db, uid) == [db EXCEPT !.versions[uid].valid = 0]

set_version_valid(db, uid) == [db EXCEPT !.versions[uid].valid = 1]

\* set_block: upsert of a block row with the reference counting of its uid.
\* The result is [ok, db]; ok is FALSE when the call raised (the insert of a row
\* whose primary key exists, or ref_del of a uid without a row).
set_block(db, id, version_uid, block_uid, checksum, size, valid, upsert, t) ==
    LET key == <<version_uid, id>>
        v == IF valid # 0 THEN 1 ELSE 0
        exists == key \in DOMAIN db.blocks
        row == [uid |-> block_uid, checksum |-> checksum, size |-> size, valid |-> v]
    IN  IF upsert /\ exists
        THEN IF db.blocks[key].uid # block_uid
             THEN LET added == ref_add(db.rc, block_uid, t)
                      del == ref_del(added, db.blocks[key].uid, t)
                  IN  IF del.ok
                      THEN [ok |-> TRUE,
                            db |-> [db EXCEPT !.rc = del.rc, !.blocks[key] = row]]
                      ELSE [ok |-> FALSE, db |-> [db EXCEPT !.rc = added]]
             ELSE [ok |-> TRUE, db |-> [db EXCEPT !.blocks[key] = row]]
        ELSE IF exists
             THEN [ok |-> FALSE, db |-> db]
             ELSE [ok |-> TRUE,
                   db |-> [db EXCEPT !.blocks = @ @@ (key :> row),
                                     !.rc = ref_add(db.rc, block_uid, t)]]

RECURSIVE RmRefs(_, _, _, _)
\* The loop of rm_version: ref_del for each block row of the version, in order.
RmRefs(rc, b, keys, t) ==
    IF keys = <<>> THEN [ok |-> TRUE, rc |-> rc]
    ELSE LET del == ref_del(rc, b[Head(keys)].uid, t)
         IN  IF del.ok THEN RmRefs(del.rc, b, Tail(keys), t)
             ELSE [ok |-> FALSE, rc |-> rc]

\* rm_version: decrement the refcount of every block row, delete the block rows
\* and the version row.  The result is [ok, db].
rm_version(db, version_uid, t) ==
    LET ids == BlockIdsOf(db.blocks, version_uid)
        keys == [i \in 1..Len(ids) |-> <<version_uid, ids[i]>>]
        r == RmRefs(db.rc, db.blocks, keys, t)
    IN  IF r.ok
        THEN [ok |-> TRUE,
              db |-> [versions |-> [u \in DOMAIN db.versions \ {version_uid} |-> db.versions[u]],
                      blocks |-> [k \in {k \in DOMAIN db.blocks : k[1] # version_uid} |-> db.blocks[k]],
                      rc |-> r.rc]]
        ELSE [ok |-> FALSE, db |-> [db EXCEPT !.rc = r.rc]]

\* set_blocks_invalid with the rows chosen by uid alone.
set_blocks_invalid_by_uid(db, uid, checksum) ==
    LET hit == {k \in DOMAIN db.blocks : db.blocks[k].uid = uid}
        affected_version_uids == {k[1] : k \in hit}
    IN  [db |-> [db EXCEPT
                   !.blocks = [k \in DOMAIN @ |->
                                 IF k \in hit THEN [@[k] EXCEPT !.valid = 0] ELSE @[k]],
                   !.versions = [v \in DOMAIN @ |->
                                 IF v \in affected_version_uids
                                 THEN [@[v] EXCEPT !.valid = 0] ELSE @[v]]],
         affected |-> affected_version_uids]

\* set_blocks_invalid: the rows with that uid and that checksum get valid=0,
\* then set_version_invalid runs for each version that has such a row;
\* [db, affected], affected the version uids returned.  (uid=None is
\* compared as IS NULL, so the call with (None, None) takes the sparse rows.)
set_blocks_invalid(db, uid, checksum) ==
    LET hit == {k \in DOMAIN db.blocks :
                  db.blocks[k].uid = uid /\ db.blocks[k].checksum = checksum}
        affected_version_uids == {k[1] : k \in hit}
    IN  [db |-> [db EXCEPT
                   !.blocks = [k \in DOMAIN @ |->
                                 IF k \in hit THEN [@[k] EXCEPT !.valid = 0] ELSE @[k]],
                   !.versions = [v \in DOMAIN @ |->
                                 IF v \in affected_version_uids
                                 THEN [@[v] EXCEPT !.valid = 0] ELSE @[v]]],
         affected |-> affected_version_uids]

(***************************************************************************)
(* sql.py: get_delete_candidates, export and import_.                      *)
(***************************************************************************)

\* get_delete_candidates(dt) run to its end at time t: the uids with refs = 0
\* whose row was last modified more than dt before t are handed out and their
\* refcount rows deleted; [uids, db].
get_delete_candidates(db, t, dt) ==
    LET uids == {u \in DOMAIN db.rc : db.rc[u].modified < t - dt /\ db.rc[u].refs = 0}
    IN  [uids |-> uids,
         db |-> [db EXCEPT !.rc = [u \in DOMAIN @ \ uids |-> @[u]]]]

METADATA_VERSION == "2.1"

\* The text of the signature row of a dump.
Signature == <<"backy2 Version ", METADATA_VERSION, " metadata dump">>

\* The decimal text of the small integers, and the integer a column of type
\* Integer makes of such a text.
Digits == <<"0", "1", "2", "3", "4", "5", "6", "7", "8", "9">>
Str(n) == Digits[n + 1]
int(text) == (CHOOSE i \in 1..Len(Digits) : Digits[i] = text) - 1

\* What csv.writer writes for a string column: None becomes the empty field.
CsvField(x) == IF x = None THEN Empty ELSE x

\* get_blocks_by_version: the rows of a version, ordered by id.
get_blocks_by_version(db, version_uid) ==
    LET ids == BlockIdsOf(db.blocks, version_uid)
    IN  [i \in 1..Len(ids) |->
            LET r == db.blocks[<<version_uid, ids[i]>>]
            IN  [id |-> ids[i], uid |-> r.uid, checksum |-> r.checksum,
                 size |-> r.size, valid |-> r.valid]]

\* export: the rows written to the file (the dates are left out).
export(db, version_uid) ==
    LET rows == get_blocks_by_version(db, version_uid)
        version == db.versions[version_uid]
    IN  [signature |-> Signature,
         version |-> <<version_uid, version.name, Str(version.size),
                       Str(version.size_bytes), Str(version.valid)>>,
         blocks |-> [i \in 1..Len(rows) |->
                       <<CsvField(rows[i].uid), version_uid, Str(rows[i].id),
                         CsvField(rows[i].checksum), Str(rows[i].size),
                         Str(rows[i].valid)>>]]

\* import_ that does not look at the signature row.
import_any_signature(db, f) ==
    IF f.version[1] \in DOMAIN db.versions
    THEN [ok |-> FALSE, db |-> db]
    ELSE [ok |-> TRUE,
          db |-> [db EXCEPT
                    !.versions = @ @@ (f.version[1] :>
                        [name |-> f.version[2], size |-> int(f.version[3]),
                         size_bytes |-> int(f.version[4]), valid |-> int(f.version[5])]),
                    !.blocks = @ @@ [k \in {<<f.blocks[i][2], int(f.blocks[i][3])>> :
                                              i \in 1..Len(f.blocks)} |->
                        LET row == f.blocks[CHOOSE i \in 1..Len(f.blocks) :
                                       <<f.blocks[i][2], int(f.blocks[i][3])>> = k]
                        IN  [uid |-> row[1], checksum |-> row[4],
                             size |-> int(row[5]), valid |-> int(row[6])]]]]

\* import_: the version row and the block rows of the file are inserted as
\* read; the refcount table is not touched.  [ok, db], ok FALSE for a wrong
\* signature (ValueError) and for a version that exists (KeyError).
import_(db, f) ==
    IF f.signature # Signature \/ f.version[1] \in DOMAIN db.versions
    THEN [ok |-> FALSE, db |-> db]
    ELSE [ok |-> TRUE,
          db |-> [db EXCEPT
                    !.versions = @ @@ (f.version[1] :>
                        [name |-> f.version[2], size |-> int(f.version[3]),
                         size_bytes |-> int(f.version[4]), valid |-> int(f.version[5])]),
                    !.blocks = @ @@ [k \in {<<f.blocks[i][2], int(f.blocks[i][3])>> :
                                              i \in 1..Len(f.blocks)} |->
                        LET row == f.blocks[CHOOSE i \in 1..Len(f.blocks) :
                                       <<f.blocks[i][2], int(f.blocks[i][3])>> = k]
                        IN  [uid |-> row[1], checksum |-> row[4],
                             size |-> int(row[5]), valid |-> int(row[6])]]]]

(***************************************************************************)
(* Actions of the meta backend.                                            *)
(***************************************************************************)

Commit(db) ==
    /\ versions' = db.versions
    /\ blocks' = db.blocks
    /\ block_refcounter' = db.rc

\* No large file on disk, no process with a LargeFileBackend.
NoLargeFiles ==
    [files |-> EmptyTable,
     be |-> [p \in {1, 2} |->
               [open |-> FALSE, lfs |-> <<>>, index |-> {}, free_blocks |-> <<>>,
                lf_num_blocks |-> EmptyTable]],
     minted |-> 0,
     saved |-> {},
     known |-> [p \in {1, 2} |-> {}],
     last |-> [op |-> "none", p |-> 0, uid |-> <<>>, ok |-> TRUE, error |-> None,
               data |-> <<>>]]

\* No lock file, no process in flock.
NoFlock ==
    [file |-> FALSE,
     proc |-> [p \in {1, 2, 3} |-> [pc |-> "idle", blocking |-> TRUE, error |-> None]]]

\* Two sessions with nothing pending and no call made.
NoSessions ==
    [s \in {1, 2} |->
       [pc |-> "idle", call |-> [key |-> <<None, 0>>, uid |-> None, _commit |-> TRUE],
        pending_blocks |-> EmptyTable, pending_refs |-> EmptyTable,
        calls |-> 0, returned |-> {}, last |-> "none"]]

\* No generator of get_delete_candidates.
NoGenerator == [phase |-> "none", dt |-> 0, batch |-> {}, batches |-> <<>>]

\* The tables, files and counters after construction.
Start ==
    /\ versions = EmptyTable
    /\ blocks = EmptyTable
    /\ block_refcounter = EmptyTable
    /\ minted = 0
    /\ now = 0
    /\ dump = NoFile
    /\ imports = 0
    /\ yielded = {}
    /\ blobs = EmptyTable
    /\ blob_minted = 0
    /\ job = NoJob
    /\ history = EmptyTable
    /\ damaged = 0
    /\ invalidated = NoCall
    /\ lf = NoLargeFiles
    /\ fl = NoFlock
    /\ sess = NoSessions
    /\ gen = NoGenerator

\* The offsets between the local time of datetime.datetime.now() and the
\* time of the database's now(), which is UTC on SQLite: a host west of UTC,
\* a host on UTC, and a host further east of UTC than the longest grace.
UtcOffsets == {-1, 0, 2}

\* A host whose local time is the database's time.
Init == Start /\ utcoffset = 0

\* A host in any time zone.
InitZone == Start /\ utcoffset \in UtcOffsets

\* set_version, with the arguments drawn from the given sets.
SetVersion(sizes, valids) ==
    /\ minted < MaxVersions
    /\ \E size \in sizes, valid \in valids :
          Commit(set_version(DB, minted + 1, "a", size, size, valid))
    /\ minted' = minted + 1
    /\ UNCHANGED <<now, dump, imports, yielded, invalidated, utcoffset, otherVars, engineVars>>

\* set_block on an existing version, with the arguments drawn from the given
\* sets (pairs holds the <<uid, checksum>> pairs).  A call that raised leaves
\* the session as it was at the last commit.
SetBlock(ids, pairs, valids, upserts) ==
    /\ \E version_uid \in DOMAIN versions, id \in ids, p \in pairs,
          valid \in valids, upsert \in upserts :
          LET r == set_block(DB, id, version_uid, p[1], p[2], 1, valid, upsert, now)
          IN  /\ r.ok
              /\ Commit(r.db)
    /\ UNCHANGED <<minted, now, dump, imports, yielded, invalidated, utcoffset, otherVars, engineVars>>

RmVersion ==
    /\ \E version_uid \in DOMAIN versions :
          LET r == rm_version(DB, version_uid, now)
          IN  /\ r.ok
              /\ Commit(r.db)
    /\ UNCHANGED <<minted, now, dump, imports, yielded, invalidated, utcoffset, otherVars, engineVars>>

\* The block ids the meta backend's operations are called with directly.
MetaIds == {0, 1}

\* A sparse row, and each uid with one checksum.
TiedPairs == {<<None, None>>, <<UidNames[1], HashNames[1]>>, <<UidNames[2], HashNames[2]>>}

(***************************************************************************)
(* SpecRef: set_version, set_block (insert and update path) and rm_version *)
(* on one session.                                                         *)
(***************************************************************************)
NextRef ==
    \/ SetVersion({2}, {0})
    \/ SetBlock(MetaIds, TiedPairs, {1}, BOOLEAN)
    \/ RmVersion

SpecRef == Init /\ [][NextRef]_vars

(***************************************************************************)
(* backy.py: bytes, files and the hash.                                    *)
(***************************************************************************)
Bytes == {0, 1}

\* Every source file of at most MaxSrcLen bytes.
Sources == UNION {[1..n -> Bytes] : n \in 0..MaxSrcLen}

Max(a, b) == IF a >= b THEN a ELSE b
Min(a, b) == IF a <= b THEN a ELSE b

\* math.ceil(a / b) and math.floor(a / b) for a >= 0, b > 0.
Ceil(a, b) == (a + b - 1) \div b
Floor(a, b) == a \div b

Zeros(n) == [i \in 1..n |-> 0]

RECURSIVE Code(_)
\* The number of a byte string: its bytes as binary digits after a leading 1.
Code(d) == IF d = <<>> THEN 1 ELSE 2 * Code(SubSeq(d, 1, Len(d) - 1)) + d[Len(d)]

\* HASH_FUNCTION(data).hexdigest(): a digest, different for different data.
HASH_FUNCTION(data) == HashNames[Code(data)]

\* f.read(n) with the seek left out: every read starts at the file's beginning.
FileRead_no_seek(f, pos, n) == SubSeq(f, 1, Min(Len(f), n))

\* f.seek(pos); f.read(n): the bytes are cut at the end of the file.
FileRead(f, pos, n) == SubSeq(f, pos + 1, Min(Len(f), pos + n))

\* f.seek(pos); f.write(data): a gap before pos reads as zeros, and writing
\* nothing does not extend the file.
FileWrite(f, pos, data) ==
    IF data = <<>> THEN f
    ELSE [i \in 1..Max(Len(f), pos + Len(data)) |->
            IF i > pos /\ i <= pos + Len(data) THEN data[i - pos]
            ELSE IF i <= Len(f) THEN f[i] ELSE 0]

\* blocks_from_hints that rounds the end of a hint down: a block the hint
\* only partly covers at its end is left out.
blocks_from_hints_floor_end(hints, block_size) ==
    UNION {Floor(hints[h][1], block_size)..(Floor(hints[h][1] + hints[h][2], block_size) - 1)
           : h \in 1..Len(hints)}

\* blocks_from_hints: the block indices the hints <<offset, length, exists>> touch.
blocks_from_hints(hints, block_size) ==
    UNION {Floor(hints[h][1], block_size)..(Ceil(hints[h][1] + hints[h][2], block_size) - 1)
           : h \in 1..Len(hints)}

\* [hint for hint in hints if hint[2]] and its complement.
HintsWhere(hints, exists) == SelectSeq(hints, LAMBDA h : h[3] = exists)

(***************************************************************************)
(* backy.py: SQLBackend, the meta backend the engine is built with.        *)
(***************************************************************************)

\* set_version that stores every version as valid.
SQLBackend_set_version_as_valid(db, n, version_name, size, size_bytes, valid) ==
    [db EXCEPT !.versions = @ @@ (VersionUidNames[n] :>
        [name |-> version_name, size |-> size, size_bytes |-> size_bytes, valid |-> 1])]

\* SQLBackend.set_version: mints uid number n and inserts the version row.
SQLBackend_set_version(db, n, version_name, size, size_bytes, valid) ==
    [db EXCEPT !.versions = @ @@ (VersionUidNames[n] :>
        [name |-> version_name, size |-> size, size_bytes |-> size_bytes, valid |-> valid])]

SQLBackend_set_version_invalid(db, uid) == [db EXCEPT !.versions[uid].valid = 0]

SQLBackend_set_version_valid(db, uid) == [db EXCEPT !.versions[uid].valid = 1]

\* SQLBackend.set_block: upsert of a block row; there is no reference counter.
SQLBackend_set_block(db, id, version_uid, block_uid, checksum, size, valid) ==
    LET key == <<version_uid, id>>
        row == [uid |-> block_uid, checksum |-> checksum, size |-> size,
                valid |-> IF valid # 0 THEN 1 ELSE 0]
    IN  IF key \in DOMAIN db.blocks
        THEN [db EXCEPT !.blocks[key] = row]
        ELSE [db EXCEPT !.blocks = @ @@ (key :> row)]

RECURSIVE InvalidateVersions(_, _)
\* for version_uid in affected_version_uids: set_version_invalid(version_uid)
InvalidateVersions(db, uids) ==
    IF uids = {} THEN db
    ELSE LET u == CHOOSE x \in uids : TRUE
         IN  InvalidateVersions(SQLBackend_set_version_invalid(db, u), uids \ {u})

\* SQLBackend.set_blocks_invalid: [db, affected], affected the version uids returned.
SQLBackend_set_blocks_invalid(db, uid, checksum) ==
    LET hit == {k \in DOMAIN db.blocks :
                  db.blocks[k].uid = uid /\ db.blocks[k].checksum = checksum}
        affected == {k[1] : k \in hit}
        marked == [db EXCEPT !.blocks = [k \in DOMAIN @ |->
                      IF k \in hit THEN [@[k] EXCEPT !.valid = 0] ELSE @[k]]]
    IN  [db |-> InvalidateVersions(marked, affected), affected |-> affected]

\* get_block_by_checksum that never finds a row.
SQLBackend_get_block_by_checksum_finds_none(db, checksum) == {}

\* SQLBackend.get_block_by_checksum: the rows .first() can return (any row
\* with that checksum, valid or not; empty when there is none).
SQLBackend_get_block_by_checksum(db, checksum) ==
    {k \in DOMAIN db.blocks : db.blocks[k].checksum = checksum}

\* SQLBackend.get_blocks_by_version: the rows of a version, as the table's
\* primary key (version_uid, id) orders them.
SQLBackend_get_blocks_by_version(db, version_uid) ==
    LET ids == BlockIdsOf(db.blocks, version_uid)
    IN  [i \in 1..Len(ids) |->
            LET r == db.blocks[<<version_uid, ids[i]>>]
            IN  [id |-> ids[i], uid |-> r.uid, checksum |-> r.checksum,
                 size |-> r.size, valid |-> r.valid]]

\* rm_version that deletes the version row and leaves its block rows.
SQLBackend_rm_version_keeps_blocks(db, version_uid) ==
    [db EXCEPT !.versions = [u \in DOMAIN @ \ {version_uid} |-> @[u]]]

\* SQLBackend.rm_version: delete the block rows and the version row.
SQLBackend_rm_version(db, version_uid) ==
    [db EXCEPT !.versions = [u \in DOMAIN @ \ {version_uid} |-> @[u]],
               !.blocks = [k \in {k \in DOMAIN @ : k[1] # version_uid} |-> @[k]]]

\* get_all_block_uids with .first() in place of .all(): one row's uid only.
SQLBackend_get_all_block_uids_first(db) ==
    IF DOMAIN db.blocks = {} THEN {}
    ELSE {db.blocks[CHOOSE k \in DOMAIN db.blocks : TRUE].uid}

\* SQLBackend.get_all_block_uids: the distinct uids of all block rows (None included).
SQLBackend_get_all_block_uids(db) == {db.blocks[k].uid : k \in DOMAIN db.blocks}

(***************************************************************************)
(* backy.py: Backy._prepare_version.                                       *)
(***************************************************************************)

\* PreparedBlock that cuts the size of the last block and keeps the base's
\* uid and checksum on it.
PreparedBlock_keeps_uid(id, size_bytes, old_blocks) ==
    LET inherit == old_blocks # <<>> /\ id < Len(old_blocks)
        old == old_blocks[id + 1]
        block_size == IF inherit THEN old.size ELSE BlockSize
    IN  [uid |-> IF inherit THEN old.uid ELSE None,
         checksum |-> IF inherit THEN old.checksum ELSE None,
         size |-> Min(block_size, size_bytes - id * BlockSize),
         valid |-> IF inherit THEN old.valid ELSE 1]

\* The row _prepare_version writes for block id of a new version of
\* size_bytes bytes, old_blocks being the base's rows (<<>> without a base).
PreparedBlock(id, size_bytes, old_blocks) ==
    LET inherit == old_blocks # <<>> /\ id < Len(old_blocks)
        old == old_blocks[id + 1]
        uid == IF inherit THEN old.uid ELSE None
        checksum == IF inherit THEN old.checksum ELSE None
        block_size == IF inherit THEN old.size ELSE BlockSize
        valid == IF inherit THEN old.valid ELSE 1
        new_block_size == Min(block_size, size_bytes - id * BlockSize)
    IN  IF new_block_size # block_size
        THEN [uid |-> None, checksum |-> None, size |-> new_block_size, valid |-> 1]
        ELSE [uid |-> uid, checksum |-> checksum, size |-> block_size, valid |-> valid]

RECURSIVE PrepareBlocks(_, _, _, _, _)
\* for id in range(size): set_block(id, version_uid, ...), from id on.
PrepareBlocks(db, version_uid, id, size_bytes, old_blocks) ==
    IF id >= Ceil(size_bytes, BlockSize) THEN db
    ELSE LET b == PreparedBlock(id, size_bytes, old_blocks)
         IN  PrepareBlocks(
                 SQLBackend_set_block(db, id, version_uid, b.uid, b.checksum, b.size, b.valid),
                 version_uid, id + 1, size_bytes, old_blocks)

\* The check of the base that accepts a base that is not valid.
InvalidBase_accepted(db, from_version_uid) == FALSE

\* if not old_version.valid: the base exists and is not valid.
InvalidBase(db, from_version_uid) ==
    Truthy(from_version_uid) /\ db.versions[from_version_uid].valid = 0

\* _prepare_version: [status, db, version_uid].  status is "KeyError" when the
\* base does not exist, "RuntimeError" when it is not valid, "AssertionError"
\* when a base row is not at its index, and "ok" otherwise; n is the number of
\* the version uid to mint.
_prepare_version(db, n, name, size_bytes, from_version_uid) ==
    LET old_blocks == IF Truthy(from_version_uid)
                      THEN SQLBackend_get_blocks_by_version(db, from_version_uid)
                      ELSE <<>>
        size == Ceil(size_bytes, BlockSize)
        version_uid == VersionUidNames[n]
        created == SQLBackend_set_version(db, n, name, size, size_bytes, 0)
    IN  IF Truthy(from_version_uid) /\ from_version_uid \notin DOMAIN db.versions
        THEN [status |-> "KeyError", db |-> db, version_uid |-> None]
        ELSE IF InvalidBase(db, from_version_uid)
        THEN [status |-> "RuntimeError", db |-> db, version_uid |-> None]
        ELSE IF \E i \in 1..Min(size, Len(old_blocks)) : old_blocks[i].id # i - 1
        THEN [status |-> "AssertionError", db |-> created, version_uid |-> version_uid]
        ELSE [status |-> "ok",
              db |-> PrepareBlocks(created, version_uid, 0, size_bytes, old_blocks),
              version_uid |-> version_uid]

(***************************************************************************)
(* backy.py: Backy.restore and Backy.scrub.                                *)
(***************************************************************************)

RECURSIVE RestoreLoop(_, _, _, _, _, _, _)
\* The loop of restore over the rows from index i on: [status, db, f, tell].
\* f is the target file and tell the position of its file pointer.  A blob
\* that is missing makes data_backend.read raise, and one of another length
\* than the row's size fails the assertion; both end the restore.
RestoreLoop(db, store, rows, i, f, tell, sparse) ==
    IF i > Len(rows) THEN [status |-> "ok", db |-> db, f |-> f, tell |-> tell]
    ELSE LET block == rows[i]
             pos == block.id * BlockSize
         IN  IF Truthy(block.uid)
             THEN IF block.uid \notin DOMAIN store
                  THEN [status |-> "FileNotFoundError", db |-> db, f |-> f, tell |-> pos]
                  ELSE LET data == store[block.uid]
                           written == FileWrite(f, pos, data)
                       IN  IF Len(data) # block.size
                           THEN [status |-> "AssertionError", db |-> db, f |-> f, tell |-> pos]
                           ELSE IF HASH_FUNCTION(data) # block.checksum
                           THEN RestoreLoop(
                                    SQLBackend_set_blocks_invalid(db, block.uid, block.checksum).db,
                                    store, rows, i + 1, written, pos + Len(data), sparse)
                           ELSE RestoreLoop(db, store, rows, i + 1, written,
                                            pos + Len(data), sparse)
             ELSE IF ~sparse
                  THEN RestoreLoop(db, store, rows, i + 1,
                                   FileWrite(f, pos, Zeros(block.size)), pos + block.size, sparse)
                  ELSE RestoreLoop(db, store, rows, i + 1, f, pos, sparse)

\* restore of an existing version: [status, db, f], f the target file.  After
\* the target is written and closed the method ends with self.session.commit()
\* on the Backy object, which has no attribute session: a restore whose loop
\* ran to its end raises AttributeError.
restore(db, store, version_uid, sparse) ==
    LET rows == SQLBackend_get_blocks_by_version(db, version_uid)
        r == RestoreLoop(db, store, rows, 1, <<>>, 0, sparse)
        last_block == rows[Len(rows)]
    IN  IF r.status # "ok" THEN [status |-> r.status, db |-> r.db, f |-> r.f]
        ELSE IF r.tell = db.versions[version_uid].size_bytes
        THEN [status |-> "AttributeError", db |-> r.db, f |-> r.f]
        ELSE IF rows = <<>>
        THEN [status |-> "IndexError", db |-> r.db, f |-> r.f]
        ELSE [status |-> "AttributeError", db |-> r.db,
              f |-> FileWrite(r.f, last_block.id * BlockSize + last_block.size - 1, <<0>>)]

\* The comparison with the source that finds no difference.
SourceChanged_ignored(source, block, data) == FALSE

\* source_file.seek(block.id * block_size); source_file.read(block.size) != data
SourceChanged(source, block, data) ==
    FileRead(source, block.id * BlockSize, block.size) # data

RECURSIVE ScrubLoop(_, _, _, _, _, _, _, _)
\* The loop of scrub over the rows from index i on: [status, db, state].
\* skip holds the ids the percentile draw passes over.
ScrubLoop(db, store, rows, i, with_source, source, skip, state) ==
    IF i > Len(rows) THEN [status |-> "ok", db |-> db, state |-> state]
    ELSE LET block == rows[i]
         IN  IF ~Truthy(block.uid) \/ block.id \in skip
             THEN ScrubLoop(db, store, rows, i + 1, with_source, source, skip, state)
             ELSE IF block.uid \notin DOMAIN store
             THEN [status |-> "FileNotFoundError", db |-> db, state |-> state]
             ELSE LET data == store[block.uid]
                  IN  IF Len(data) # block.size
                      THEN [status |-> "AssertionError", db |-> db, state |-> state]
                      ELSE IF HASH_FUNCTION(data) # block.checksum
                      THEN ScrubLoop(
                               SQLBackend_set_blocks_invalid(db, block.uid, block.checksum).db,
                               store, rows, i + 1, with_source, source, skip, FALSE)
                      ELSE ScrubLoop(db, store, rows, i + 1, with_source, source, skip,
                               IF with_source /\ SourceChanged(source, block, data)
                               THEN FALSE ELSE state)

\* scrub of an existing version: [status, db, state], state the boolean returned.
scrub(db, store, version_uid, with_source, source, skip) ==
    ScrubLoop(db, store, SQLBackend_get_blocks_by_version(db, version_uid), 1,
              with_source, source, skip, TRUE)

\* remove_candidates that takes every blob.
remove_candidates_all(db, store) == DOMAIN store

\* cleanup: the blob uids no block row holds.
remove_candidates(db, store) == DOMAIN store \ SQLBackend_get_all_block_uids(db)

(***************************************************************************)
(* Actions of the engine (backy.py).  One process runs one operation at a  *)
(* time; a backup takes one step per block.                                *)
(***************************************************************************)

CommitEngine(db) ==
    /\ versions' = db.versions
    /\ blocks' = db.blocks

\* The version uids minted so far.
MintedUids == {VersionUidNames[i] : i \in 1..minted}

\* The check of the hints that lets every hint list pass.
HintsBeyondSource_accepted(hints, source_size) == FALSE

\* if hints: max_offset = max(offset + length); max_offset > source_size, the
\* condition under which backup raises ValueError.
HintsBeyondSource(hints, source_size) ==
    /\ hints # <<>>
    /\ \E h \in 1..Len(hints) : hints[h][1] + hints[h][2] > source_size

\* backup, up to the loop: the check of the hints, _prepare_version and the
\* list of the new version's blocks.  A call that raises before the version is
\* created (hints beyond the source, a base that is missing or not valid)
\* changes nothing.
BackupStart(sources, hint_lists) ==
    /\ job = NoJob
    /\ minted < MaxVersions
    /\ \E source \in sources, hints \in hint_lists, from_version \in MintedUids \cup {None} :
          LET source_size == Len(source)
              size == Ceil(source_size, BlockSize)
              p == _prepare_version(DB, minted + 1, "a", source_size, from_version)
          IN  /\ blob_minted + size <= MaxBlobs
              /\ ~HintsBeyondSource(hints, source_size)
              /\ p.status \notin {"KeyError", "RuntimeError"}
              /\ CommitEngine(p.db)
              /\ minted' = minted + 1
              /\ history' = history @@ (p.version_uid :>
                    [source |-> source, hints |-> hints, from_version |-> from_version,
                     stable |-> TRUE])
              /\ job' = IF p.status # "ok" THEN NoJob
                        ELSE [phase |-> "blocks",
                              version_uid |-> p.version_uid,
                              source |-> source,
                              read_blocks |->
                                 IF hints # <<>>
                                 THEN blocks_from_hints(HintsWhere(hints, TRUE), BlockSize)
                                 ELSE 0..(size - 1),
                              sparse_blocks |->
                                 IF hints # <<>>
                                 THEN blocks_from_hints(HintsWhere(hints, FALSE), BlockSize)
                                 ELSE {},
                              rows |-> SQLBackend_get_blocks_by_version(p.db, p.version_uid),
                              next |-> 1]
    /\ UNCHANGED <<blobs, blob_minted, damaged, metaVars>>

\* backup with a from_version that is not valid: _prepare_version raises
\* RuntimeError before it writes anything, and backup exits.
BackupRefused(sources) ==
    /\ job = NoJob
    /\ minted < MaxVersions
    /\ \E source \in sources, from_version \in MintedUids :
          _prepare_version(DB, minted + 1, "a", Len(source), from_version).status
             = "RuntimeError"
    /\ UNCHANGED vars

\* backup with hints that reach beyond the end of the source: ValueError is
\* raised before _prepare_version is called.
BackupRejected(sources, hint_lists) ==
    /\ job = NoJob
    /\ minted < MaxVersions
    /\ \E source \in sources, hints \in hint_lists :
          HintsBeyondSource(hints, Len(source))
    /\ UNCHANGED vars

\* One pass of backup's loop: the next block is read and stored, marked
\* sparse, or kept.  Reading nothing from the source ends the backup.
BackupBlock ==
    /\ job.phase = "blocks"
    /\ job.next <= Len(job.rows)
    /\ LET block == job.rows[job.next]
           version_uid == job.version_uid
           valid == blocks[<<version_uid, block.id>>].valid
           data == FileRead(job.source, block.id * BlockSize, BlockSize)
           data_checksum == HASH_FUNCTION(data)
           found == SQLBackend_get_block_by_checksum(DB, data_checksum)
           block_uid == UidNames[blob_minted + 1]
       IN  IF block.id \in job.read_blocks \/ valid = 0
           THEN IF data = <<>>
                THEN /\ job' = NoJob
                     /\ UNCHANGED <<versions, blocks, blobs, blob_minted>>
                ELSE /\ \E k \in IF found = {} THEN {<<None, 0>>} ELSE found :
                          IF k \in found /\ blocks[k].size = Len(data)
                          THEN /\ CommitEngine(SQLBackend_set_block(DB, block.id, version_uid,
                                      blocks[k].uid, data_checksum, Len(data), 1))
                               /\ UNCHANGED <<blobs, blob_minted>>
                          ELSE /\ blob_minted < MaxBlobs
                               /\ blobs' = blobs @@ (block_uid :> data)
                               /\ blob_minted' = blob_minted + 1
                               /\ CommitEngine(SQLBackend_set_block(DB, block.id, version_uid,
                                      block_uid, data_checksum, Len(data), 1))
                     /\ job' = [job EXCEPT !.next = @ + 1]
           ELSE /\ IF block.id \in job.sparse_blocks
                   THEN CommitEngine(SQLBackend_set_block(DB, block.id, version_uid,
                                         None, None, block.size, 1))
                   ELSE UNCHANGED <<versions, blocks>>
                /\ job' = [job EXCEPT !.next = @ + 1]
                /\ UNCHANGED <<blobs, blob_minted>>
    /\ UNCHANGED <<minted, history, damaged, metaVars>>

\* The end of backup: after the loop the version is marked valid.
BackupFinish ==
    /\ job.phase = "blocks"
    /\ job.next > Len(job.rows)
    /\ CommitEngine(SQLBackend_set_version_valid(DB, job.version_uid))
    /\ job' = NoJob
    /\ UNCHANGED <<minted, blobs, blob_minted, history, damaged, metaVars>>

\* The source file loses its tail while the backup reads it.
SourceTruncated ==
    /\ job.phase = "blocks"
    /\ \E n \in 0..(Len(job.source) - 1) :
          job' = [job EXCEPT !.source = SubSeq(@, 1, n)]
    /\ history' = [history EXCEPT ![job.version_uid].stable = FALSE]
    /\ UNCHANGED <<versions, blocks, minted, blobs, blob_minted, damaged, metaVars>>

\* restore(version_uid, target, sparse) of an existing version; what it
\* leaves in the meta store is the invalidation of the blocks it found bad.
Restore ==
    /\ job = NoJob
    /\ \E version_uid \in DOMAIN versions, sparse \in BOOLEAN :
          CommitEngine(restore(DB, blobs, version_uid, sparse).db)
    /\ UNCHANGED <<minted, blobs, blob_minted, job, history, damaged, metaVars>>

\* The ids a run of scrub with that percentile may pass over.
SkipSets(percentile, ids) ==
    IF percentile >= 100 THEN {{}}
    ELSE IF percentile < 1 THEN {ids}
    ELSE SUBSET ids

\* scrub(version_uid, source, percentile) of an existing version; sources
\* holds the source files it is called with, and it is also called without one.
Scrub(sources) ==
    /\ job = NoJob
    /\ \E version_uid \in DOMAIN versions, with_source \in BOOLEAN, percentile \in {50, 100} :
       \E source \in IF with_source THEN sources ELSE {<<>>},
          skip \in SkipSets(percentile, 0..(versions[version_uid].size - 1)) :
          CommitEngine(scrub(DB, blobs, version_uid, with_source, source, skip).db)
    /\ UNCHANGED <<minted, blobs, blob_minted, job, history, damaged, metaVars>>

\* rm(version_uid) of an existing version.
Rm ==
    /\ job = NoJob
    /\ \E version_uid \in DOMAIN versions :
          CommitEngine(SQLBackend_rm_version(DB, version_uid))
    /\ UNCHANGED <<minted, blobs, blob_minted, job, history, damaged, metaVars>>

\* cleanup(): every blob whose uid no block row holds is removed.
Cleanup ==
    /\ job = NoJob
    /\ blobs' = [u \in DOMAIN blobs \ remove_candidates(DB, blobs) |-> blobs[u]]
    /\ UNCHANGED <<versions, blocks, minted, blob_minted, job, history, damaged, metaVars>>

\* The bytes that can stand in a damaged blob's file: the first byte
\* flipped (same length), or the last byte cut off.
DamagedData(d) ==
    {[d EXCEPT ![1] = 1 - @]} \cup (IF Len(d) > 1 THEN {SubSeq(d, 1, Len(d) - 1)} ELSE {})

\* Something outside the program overwrites the file of a blob or deletes it.
BlobDamaged ==
    /\ damaged < MaxDamage
    /\ \E u \in DOMAIN blobs :
          \/ \E d \in DamagedData(blobs[u]) : blobs' = [blobs EXCEPT ![u] = d]
          \/ blobs' = [x \in DOMAIN blobs \ {u} |-> blobs[x]]
    /\ damaged' = damaged + 1
    /\ UNCHANGED <<versions, blocks, minted, blob_minted, job, history, metaVars>>

\* The hint lists of the backups of SpecBacky: none, or one hint
\* <<offset, length, exists>> on the first block.
FewHints == {<<>>, <<(<<0, 1, TRUE>>)>>, <<(<<0, 1, FALSE>>)>>}

NextBacky ==
    \/ BackupStart(Sources, FewHints)
    \/ BackupBlock
    \/ BackupFinish
    \/ Restore
    \/ Scrub({})
    \/ Rm
    \/ Cleanup

\* SpecBacky: the engine with nothing but the program touching the blob store.
SpecBacky == Init /\ [][NextBacky]_vars

NextDamage ==
    \/ BackupStart(Sources, {<<>>})
    \/ BackupBlock
    \/ BackupFinish
    \/ Restore
    \/ Scrub({})
    \/ Rm
    \/ Cleanup
    \/ BlobDamaged

\* SpecDamage: the engine with blobs damaged from outside.
SpecDamage == Init /\ [][NextDamage]_vars

\* The source files scrub is called with: all zeros, and all ones.
ScrubSources == {Zeros(MaxSrcLen), [i \in 1..MaxSrcLen |-> 1]}

NextScrub ==
    \/ BackupStart(Sources, {<<>>})
    \/ BackupBlock
    \/ BackupFinish
    \/ BlobDamaged
    \/ Scrub(ScrubSources)

\* SpecScrub: backups, blobs damaged from outside, and scrub with and without
\* a source file.
SpecScrub == Init /\ [][NextScrub]_vars

\* set_blocks_invalid of sql.py, with the <<uid, checksum>> pair drawn from pairs.
SetBlocksInvalid(pairs) ==
    /\ \E p \in pairs :
          LET r == set_blocks_invalid(DB, p[1], p[2])
          IN  /\ Commit(r.db)
              /\ invalidated' = [uid |-> p[1], checksum |-> p[2], affected |-> r.affected]
    /\ UNCHANGED <<minted, now, dump, imports, yielded, utcoffset, otherVars, engineVars>>

\* set_blocks_invalid of backy.py's SQLBackend, on the same tables.
SQLBackendSetBlocksInvalid(pairs) ==
    /\ \E p \in pairs :
          LET r == SQLBackend_set_blocks_invalid(DB, p[1], p[2])
          IN  /\ Commit(r.db)
              /\ invalidated' = [uid |-> p[1], checksum |-> p[2], affected |-> r.affected]
    /\ UNCHANGED <<minted, now, dump, imports, yielded, utcoffset, otherVars, engineVars>>

\* Uids and checksums in every combination that shares one of the two, and
\* the sparse row.
FreePairs ==
    {<<None, None>>, <<UidNames[1], HashNames[1]>>, <<UidNames[1], HashNames[2]>>,
     <<UidNames[2], HashNames[1]>>}

NextInvalid ==
    \/ SetVersion({2}, {1})
    \/ SetBlock(MetaIds, FreePairs, {1}, {FALSE})
    \/ SetBlocksInvalid(FreePairs)
    \/ SQLBackendSetBlocksInvalid(FreePairs)

\* SpecInvalid: block rows of two versions and calls of set_blocks_invalid.
SpecInvalid == Init /\ [][NextInvalid]_vars

\* set_blocks_invalid up to its first session.commit(): the rows with that
\* uid and that checksum have valid=0, the versions are as they were.
set_blocks_invalid_blocks(db, uid, checksum) ==
    LET hit == {k \in DOMAIN db.blocks :
                  db.blocks[k].uid = uid /\ db.blocks[k].checksum = checksum}
    IN  [db |-> [db EXCEPT
                   !.blocks = [k \in DOMAIN @ |->
                                 IF k \in hit THEN [@[k] EXCEPT !.valid = 0] ELSE @[k]]],
         affected |-> {k[1] : k \in hit}]

\* No call of set_blocks_invalid is between two of its commits.
NoCallRunning == invalidated.todo = {}

\* set_blocks_invalid, first commit: the block rows.
SetBlocksInvalidBlocks(pairs) ==
    /\ NoCallRunning
    /\ \E p \in pairs :
          LET r == set_blocks_invalid_blocks(DB, p[1], p[2])
          IN  /\ Commit(r.db)
              /\ invalidated' = [uid |-> p[1], checksum |-> p[2],
                                 affected |-> r.affected, todo |-> r.affected]
    /\ UNCHANGED <<minted, now, dump, imports, yielded, utcoffset, otherVars, engineVars>>

\* set_blocks_invalid, one pass of its loop: set_version_invalid of one of
\* the affected versions, which commits.
SetBlocksInvalidVersion ==
    /\ ~NoCallRunning
    /\ \E version_uid \in invalidated.todo :
          /\ Commit(set_version_invalid(DB, version_uid))
          /\ invalidated' = [invalidated EXCEPT !.todo = @ \ {version_uid}]
    /\ UNCHANGED <<minted, now, dump, imports, yielded, utcoffset, otherVars, engineVars>>

\* SpecInvalidSteps: set_blocks_invalid by its commits, on the block rows of
\* two valid versions.
NextInvalidSteps ==
    \/ SetVersion({2}, {1})
    \/ SetBlock(MetaIds, FreePairs, {1}, {FALSE})
    \/ SetBlocksInvalidBlocks(FreePairs)
    \/ SetBlocksInvalidVersion

SpecInvalidSteps == Init /\ [][NextInvalidSteps]_vars

\* close(): session.commit(), after which the changes pending in the session
\* are the committed tables, and session.close().
close(db) == db

\* Backy.rm on the meta backend of sql.py: get_version raises KeyError for a
\* version that does not exist, then rm_version.  The result is [ok, db].
rm(db, version_uid, t) ==
    IF version_uid \notin DOMAIN db.versions THEN [ok |-> FALSE, db |-> db]
    ELSE rm_version(db, version_uid, t)

\* rm_version that raised KeyError in its loop: the decrements made before
\* stay in the session's transaction, which close() commits; the rows stay.
RmVersionRaises ==
    /\ \E version_uid \in DOMAIN versions :
          LET r == rm_version(DB, version_uid, now)
          IN  /\ ~r.ok
              /\ \A uid \in DOMAIN r.db.rc : r.db.rc[uid].refs >= -MaxDebt
              /\ Commit(close(r.db))
    /\ UNCHANGED <<minted, now, dump, imports, yielded, invalidated, utcoffset, otherVars, engineVars>>

\* export of an existing version to the file.
Export ==
    /\ \E version_uid \in DOMAIN versions : dump' = export(DB, version_uid)
    /\ UNCHANGED <<versions, blocks, block_refcounter, minted, now, imports, yielded,
                   invalidated, utcoffset, otherVars, engineVars>>

\* import_ of the file.
Import ==
    /\ dump # NoFile
    /\ imports < MaxImports
    /\ LET r == import_(DB, dump)
       IN  /\ r.ok
           /\ Commit(r.db)
    /\ imports' = imports + 1
    /\ UNCHANGED <<minted, now, dump, yielded, invalidated, utcoffset, otherVars, engineVars>>

\* A dump file written by another metadata version: the signature row differs.
OtherSignature(f) == [f EXCEPT !.signature = <<"backy2 Version ", "2.0", " metadata dump">>]

\* import_ of a file that is refused: ValueError for a wrong signature,
\* KeyError for a version that exists, both raised before anything is added
\* to the session.
ImportRaises ==
    /\ dump # NoFile
    /\ \E f \in {dump, OtherSignature(dump)} : ~import_(DB, f).ok
    /\ UNCHANGED vars

\* Time passes.
Tick ==
    /\ now < MaxTime
    /\ now' = now + 1
    /\ UNCHANGED <<versions, blocks, block_refcounter, minted, dump, imports, yielded,
                   invalidated, utcoffset, otherVars, engineVars>>

\* get_delete_candidates(dt) consumed to its end, dt drawn from graces.  The
\* rows' modified column holds the database's time; the cutoff is computed
\* from the local time of the process.
GetDeleteCandidates(graces) ==
    /\ \E dt \in graces :
          LET r == get_delete_candidates(DB, now + utcoffset, dt)
          IN  /\ Commit(r.db)
              /\ yielded' = r.uids
    /\ UNCHANGED <<minted, now, dump, imports, invalidated, utcoffset, otherVars, engineVars>>

\* The grace values get_delete_candidates is called with.
Graces == {0, 1}

\* A sparse row and one uid.
OnePair == {<<None, None>>, <<UidNames[1], HashNames[1]>>}

NextGC ==
    \/ SetVersion({1}, {1})
    \/ SetBlock({0}, OnePair, {1}, BOOLEAN)
    \/ RmVersion
    \/ RmVersionRaises
    \/ Export
    \/ Import
    \/ ImportRaises
    \/ Tick
    \/ GetDeleteCandidates(Graces)

\* SpecGC: block rows, removal of versions, export and import_, and the
\* collection of unreferenced uids, on one session.
SpecGC == InitZone /\ [][NextGC]_vars

NextRmFail ==
    \/ SetVersion({2}, {1})
    \/ SetBlock({0}, {<<UidNames[1], HashNames[1]>>}, {1}, {TRUE})
    \/ SetBlock({1}, {<<UidNames[2], HashNames[2]>>}, {1}, {TRUE})
    \/ RmVersion
    \/ RmVersionRaises
    \/ Export
    \/ Import
    \/ Tick
    \/ GetDeleteCandidates({0})

\* SpecRmFail: versions of two blocks with two uids, their removal, export and
\* import_, and the collection of unreferenced uids, on one session.
SpecRmFail == Init /\ [][NextRmFail]_vars

\* Every source file of at most two blocks.
TwoBlockSources == UNION {[1..n -> Bytes] : n \in 0..(2 * BlockSize)}

\* Hint lists <<offset, length, exists>> for sources of up to two blocks: no
\* hints; the first block, read or sparse; the second block, read or
\* sparse; one block both read and sparse; a hint across the block boundary.
HintLists ==
    {<<>>,
     <<(<<0, 1, TRUE>>)>>,
     <<(<<0, 1, FALSE>>)>>,
     <<(<<BlockSize, 1, TRUE>>)>>,
     <<(<<BlockSize, 1, FALSE>>)>>,
     <<(<<0, 1, TRUE>>), (<<1, 1, FALSE>>)>>,
     <<(<<BlockSize - 1, 2, TRUE>>)>>}

NextHints ==
    \/ BackupStart(TwoBlockSources, HintLists)
    \/ BackupRejected(TwoBlockSources, HintLists)
    \/ BackupBlock
    \/ BackupFinish

\* SpecHints: full and incremental backups with hints, on bases that are
\* shorter than, as long as, and longer than the new source.
SpecHints == Init /\ [][NextHints]_vars

NextAbort ==
    \/ BackupStart(Sources, {<<>>})
    \/ BackupBlock
    \/ BackupFinish
    \/ BackupRefused(Sources)
    \/ SourceTruncated
    \/ Restore
    \/ Scrub({})
    \/ Rm

\* SpecAbort: backups whose source file can shrink while it is read.
SpecAbort == Init /\ [][NextAbort]_vars

\* The hints of the calls of blocks_from_hints: any offset and length up to
\* the bounds, a hint of length 0 included.
HintSet == (0..MaxHintOffset) \X (0..MaxHintLength) \X BOOLEAN

\* Hint lists of up to two hints, which may be equal, overlap or lie apart.
HintCallLists == {<<>>} \cup {<<h>> : h \in HintSet} \cup {<<g, h>> : g, h \in HintSet}

\* The block sizes of the calls.
HintBlockSizes == {BlockSize, BlockSize + 1}

\* A call of blocks_from_hints(hints, block_size); job holds the arguments and
\* the set returned.
BlocksFromHintsCall ==
    /\ job = NoJob
    /\ \E hints \in HintCallLists, block_size \in HintBlockSizes :
          job' = [phase |-> "blocks_from_hints",
                  hints |-> hints,
                  block_size |-> block_size,
                  blocks |-> blocks_from_hints(hints, block_size)]
    /\ UNCHANGED <<versions, blocks, minted, blobs, blob_minted, history, damaged, metaVars>>

\* The caller takes the set.
BlocksFromHintsReturn ==
    /\ job.phase = "blocks_from_hints"
    /\ job' = NoJob
    /\ UNCHANGED <<versions, blocks, minted, blobs, blob_minted, history, damaged, metaVars>>

NextBlocksFromHints ==
    \/ BlocksFromHintsCall
    \/ BlocksFromHintsReturn

\* SpecBlocksFromHints: calls of the helper blocks_from_hints.
SpecBlocksFromHints == Init /\ [][NextBlocksFromHints]_vars

(***************************************************************************)
(* backy.py: backup in one process and cleanup in another.  The pass of    *)
(* backup's loop that saves a blob is taken in its two calls:              *)
(* data_backend.save, then meta_backend.set_block.                         *)
(***************************************************************************)

\* backup's loop, block_uid = data_backend.save(data): the block has to be
\* read and no block row with its checksum and size was found.
BackupSave ==
    /\ job.phase = "blocks"
    /\ job.next <= Len(job.rows)
    /\ blob_minted < MaxBlobs
    /\ LET block == job.rows[job.next]
           valid == blocks[<<job.version_uid, block.id>>].valid
           data == FileRead(job.source, block.id * BlockSize, BlockSize)
           found == SQLBackend_get_block_by_checksum(DB, HASH_FUNCTION(data))
       IN  /\ block.id \in job.read_blocks \/ valid = 0
           /\ data # <<>>
           /\ \E k \in IF found = {} THEN {<<None, 0>>} ELSE found :
                 ~(k \in found /\ blocks[k].size = Len(data))
           /\ blobs' = blobs @@ (UidNames[blob_minted + 1] :> data)
    /\ blob_minted' = blob_minted + 1
    /\ job' = [job EXCEPT !.phase = "saved"]
    /\ UNCHANGED <<versions, blocks, minted, history, damaged, metaVars>>

\* backup's loop, meta_backend.set_block(block.id, version_uid, block_uid,
\* ...) with the uid save has returned, and on to the next block.
BackupRecord ==
    /\ job.phase = "saved"
    /\ LET block == job.rows[job.next]
           data == FileRead(job.source, block.id * BlockSize, BlockSize)
       IN  CommitEngine(SQLBackend_set_block(DB, block.id, job.version_uid,
              UidNames[blob_minted], HASH_FUNCTION(data), Len(data), 1))
    /\ job' = [job EXCEPT !.phase = "blocks", !.next = @ + 1]
    /\ UNCHANGED <<minted, blobs, blob_minted, history, damaged, metaVars>>

\* cleanup() in another process: nothing in cleanup or backup looks for the
\* other, so it runs whatever the backup is doing.
CleanupBeside ==
    /\ blobs' = [u \in DOMAIN blobs \ remove_candidates(DB, blobs) |-> blobs[u]]
    /\ UNCHANGED <<versions, blocks, minted, blob_minted, job, history, damaged, metaVars>>

NextCleanupRace ==
    \/ BackupStart(ScrubSources, {<<>>})
    \/ BackupBlock
    \/ BackupSave
    \/ BackupRecord
    \/ BackupFinish
    \/ CleanupBeside

SpecCleanupRace == Init /\ [][NextCleanupRace]_vars

(***************************************************************************)
(* sql.py: get_delete_candidates as the generator it is: each next() of    *)
(* the consumer runs it from one yield to the following one.               *)
(***************************************************************************)

\* The rows the query of one pass finds at local time t: refs = 0 and
\* modified before t - dt.
delete_candidates(db, t, dt) ==
    {u \in DOMAIN db.rc : db.rc[u].modified < t - dt /\ db.rc[u].refs = 0}

\* .limit(DeleteBatch).all(): as many of the rows as the limit allows, in no
\* given order.
limit(rows, n) == {b \in SUBSET rows : Cardinality(b) = Min(n, Cardinality(rows))}

\* DELETE FROM block_refcounter WHERE uid IN (uids)
delete_uids(db, uids) == [db EXCEPT !.rc = [u \in DOMAIN @ \ uids |-> @[u]]]

\* get_delete_candidates(dt) is called: nothing runs before the first next().
GdcCall(graces) ==
    /\ gen.phase \in {"none", "done"}
    /\ \E dt \in graces :
          gen' = [phase |-> "called", dt |-> dt, batch |-> {}, batches |-> <<>>]
    /\ UNCHANGED <<versions, blocks, block_refcounter, minted, now, dump, imports, yielded,
                   invalidated, utcoffset, lf, fl, sess, engineVars>>

\* next() of the consumer: the rows of the batch handed out before are
\* deleted, the query runs again, and the generator yields its rows or, when
\* there is none, ends.
GdcNext ==
    /\ gen.phase \in {"called", "yielded"}
    /\ LET db == delete_uids(DB, gen.batch)
       IN  /\ Commit(db)
           /\ \E uids \in limit(delete_candidates(db, now + utcoffset, gen.dt),
                                 DeleteBatch) :
                 gen' = IF uids = {}
                        THEN [gen EXCEPT !.phase = "done", !.batch = {}]
                        ELSE [gen EXCEPT !.phase = "yielded", !.batch = uids,
                                         !.batches = Append(@, uids)]
    /\ UNCHANGED <<minted, now, dump, imports, yielded, invalidated, utcoffset, lf, fl,
                   sess, engineVars>>

\* No generator is between its first next() and its end.
NoIteration == gen.phase \in {"none", "done"}

\* SpecBatches: versions with up to three blobs come and go; between the
\* iterations of get_delete_candidates the tables change, during one only the
\* clock moves.
NextBatches ==
    \/ (NoIteration /\ SetVersion({3}, {1}))
    \/ (NoIteration /\ \E i \in 1..3 :
            SetBlock({i - 1}, {<<UidNames[i], HashNames[i]>>}, {1}, {FALSE}))
    \/ (NoIteration /\ RmVersion)
    \/ Tick
    \/ GdcCall(Graces)
    \/ GdcNext

SpecBatches == InitZone /\ [][NextBatches]_vars

\* The consumer goes on to call next() until the generator ends.
SpecBatchesFair == SpecBatches /\ WF_vars(GdcNext)

(***************************************************************************)
(* backy.py: LargeFileBackend.  A large file is a sequence of bytes; the   *)
(* objects of the processes hold what __init__ and open set up.            *)
(***************************************************************************)
LfNames == <<"lf1", "lf2", "lf3">>
Procs == {1, 2}

\* struct's '32s', '10s' and '16s', and the two together.
UidWidth == 32
SizeWidth == 10
TrailerWidth == 16
EntryWidth == UidWidth + SizeWidth

RECURSIVE rstrip(_)
\* bytes.rstrip(b'\0')
rstrip(b) ==
    IF b # <<>> /\ b[Len(b)] = 0 THEN rstrip(SubSeq(b, 1, Len(b) - 1)) ELSE b

RECURSIVE DecimalValue(_)
DecimalValue(b) ==
    IF b = <<>> THEN 0
    ELSE 10 * DecimalValue(SubSeq(b, 1, Len(b) - 1)) + (b[Len(b)] - 48)

\* int(b): the number the ascii digits spell; ValueError for anything else.
int_bytes(b) ==
    IF b # <<>> /\ \A i \in 1..Len(b) : b[i] \in 48..57
    THEN [ok |-> TRUE, n |-> DecimalValue(b)]
    ELSE [ok |-> FALSE, n |-> 0]

RECURSIVE str_ascii(_)
\* str(n).encode("ascii")
str_ascii(n) ==
    IF n < 10 THEN <<48 + n>> ELSE str_ascii(n \div 10) \o <<48 + (n % 10)>>

\* struct.Struct('<width>s').pack(b): cut or filled with NUL to the width.
pack(b, width) == [i \in 1..width |-> IF i <= Len(b) THEN b[i] ELSE 0]

\* struct.Struct('32s 10s').pack(uid, size)
pack_entry(uid, size) == pack(uid, UidWidth) \o pack(size, SizeWidth)

\* _uid(): the n-th uid the backend mints, 32 characters.
LfUid(n) == [i \in 1..UidWidth |-> 96 + n]

\* The keys of self.index: a str and a bytes object are never equal.
StrKey(chars) == [type |-> "str", chars |-> chars]
BytesKey(chars) == [type |-> "bytes", chars |-> chars]

\* self.index[key] = (lf, block, uid, size)
IndexPut(index, key, name, block, size) ==
    {e \in index : e.key # key}
       \cup {[key |-> key, lf |-> name, block |-> block, size |-> size]}

\* __init__
NewBackend ==
    [open |-> FALSE, lfs |-> <<>>, index |-> {}, free_blocks |-> <<>>,
     lf_num_blocks |-> EmptyTable]

\* self.lf_num_blocks[lf.name] = num_blocks, unless int() raised.
CacheNumBlocks(be, name, r) ==
    IF r.ok
    THEN [ok |-> TRUE, n |-> r.n, be |-> [be EXCEPT !.lf_num_blocks = @ @@ (name :> r.n)]]
    ELSE [ok |-> FALSE, n |-> 0, be |-> be]

\* _get_lf_num_blocks: the cached number, or the last 16 bytes of the file.
_get_lf_num_blocks(be, files, name) ==
    IF name \in DOMAIN be.lf_num_blocks
    THEN [ok |-> TRUE, n |-> be.lf_num_blocks[name], be |-> be]
    ELSE CacheNumBlocks(be, name,
            int_bytes(rstrip(FileRead(files[name], Len(files[name]) - TrailerWidth,
                                      TrailerWidth))))

RECURSIVE ReadIndexLoop(_, _, _, _, _)
RECURSIVE ReadIndexEntry(_, _, _, _, _, _, _)
\* The loop of _read_index over the entries, from the given block on.
ReadIndexLoop(be, name, data, block, num_blocks) ==
    IF block >= num_blocks THEN [ok |-> TRUE, error |-> None, be |-> be]
    ELSE ReadIndexEntry(be, name, data, block, num_blocks,
            rstrip(SubSeq(data, block * EntryWidth + 1, block * EntryWidth + UidWidth)),
            int_bytes(rstrip(SubSeq(data, block * EntryWidth + UidWidth + 1,
                                    (block + 1) * EntryWidth))))

\* One pass of the loop: the entry goes into self.index under its uid, a
\* bytes object, and into free_blocks when its size is 0 (the files of the
\* path are writable).  ValueError when the size is not a number.
ReadIndexEntry(be, name, data, block, num_blocks, uid, size) ==
    IF ~size.ok THEN [ok |-> FALSE, error |-> "ValueError", be |-> be]
    ELSE ReadIndexLoop(
            [be EXCEPT
               !.index = IndexPut(@, BytesKey(uid), name, block, size.n),
               !.free_blocks =
                   IF size.n = 0 THEN Append(@, [lf |-> name, block |-> block]) ELSE @],
            name, data, block + 1, num_blocks)

\* _read_index after the sanity check of the size: the entries are read.
ReadIndexData(be, name, data, num_blocks) ==
    IF Len(data) # num_blocks * EntryWidth
    THEN [ok |-> FALSE, error |-> "RuntimeError", be |-> be]
    ELSE ReadIndexLoop(be, name, data, 0, num_blocks)

\* _read_index after _get_lf_num_blocks: RuntimeError when the size of the
\* file is not the size the number of blocks gives.
ReadIndexChecked(f, block_size, name, nb) ==
    IF ~nb.ok THEN [ok |-> FALSE, error |-> "ValueError", be |-> nb.be]
    ELSE IF Len(f) # nb.n * block_size + EntryWidth * nb.n + TrailerWidth
    THEN [ok |-> FALSE, error |-> "RuntimeError", be |-> nb.be]
    ELSE ReadIndexData(nb.be, name, FileRead(f, block_size * nb.n, nb.n * EntryWidth),
                       nb.n)

\* _read_index
_read_index(be, files, block_size, name) ==
    ReadIndexChecked(files[name], block_size, name, _get_lf_num_blocks(be, files, name))

\* The offset _set_block seeks to, and the offset of the entry of the block
\* in the layout _new_lf writes and _read_index reads.
SetBlockOffset_of_layout(block_size, num_blocks, block) ==
    block_size * num_blocks + block * EntryWidth

SetBlockOffset(block_size, num_blocks, block) ==
    block_size * (num_blocks + 1) + block * EntryWidth

\* _set_block after _get_lf_num_blocks: seek, pack, write, self.index[uid].
WriteEntry(nb, files, block_size, name, block, uid, size) ==
    [files |-> [files EXCEPT ![name] =
                   FileWrite(@, SetBlockOffset(block_size, nb.n, block),
                             pack_entry(uid, str_ascii(size)))],
     be |-> [nb.be EXCEPT !.index = IndexPut(@, StrKey(uid), name, block, size)]]

\* _set_block: writes the entry of the block and enters the uid, a str, in
\* self.index.
_set_block(be, files, block_size, name, block, uid, size) ==
    WriteEntry(_get_lf_num_blocks(be, files, name), files, block_size, name, block, uid,
               size)

RECURSIVE EmptyEntries(_)
EmptyEntries(n) ==
    IF n = 0 THEN <<>> ELSE pack_entry(<<>>, str_ascii(0)) \o EmptyEntries(n - 1)

\* The file _new_lf writes: the blocks (a hole, which reads as zeros), an
\* entry of size 0 for every block, and the number of blocks.
NewLargeFile(block_size, lf_size) ==
    LET num_blocks == Floor(lf_size, block_size)
    IN  Zeros(block_size * num_blocks) \o EmptyEntries(num_blocks)
           \o pack(str_ascii(num_blocks), TrailerWidth)

\* _new_lf after the file is written: it is opened, appended to self.lfs
\* and its index read.
OpenNewLf(be, files, block_size, name) ==
    [files |-> files,
     be |-> _read_index([be EXCEPT !.lfs = Append(@, name)], files, block_size, name).be]

\* _new_lf: a new large file under a name no file has.
_new_lf(be, files, block_size, lf_size) ==
    OpenNewLf(be,
              files @@ (LfNames[Cardinality(DOMAIN files) + 1]
                           :> NewLargeFile(block_size, lf_size)),
              block_size, LfNames[Cardinality(DOMAIN files) + 1])

\* self.free_blocks.pop()
PopFreeBlock(w) ==
    [files |-> w.files,
     be |-> [w.be EXCEPT !.free_blocks = SubSeq(@, 1, Len(@) - 1)],
     free |-> w.be.free_blocks[Len(w.be.free_blocks)]]

\* _get_free_block: the last entry of free_blocks, after _new_lf when there
\* is none.
_get_free_block(be, files, block_size, lf_size) ==
    PopFreeBlock(IF be.free_blocks # <<>> THEN [files |-> files, be |-> be]
                 ELSE _new_lf(be, files, block_size, lf_size))

\* save after _get_free_block: the data is written at the block, then
\* _set_block with the uid _uid() returns.
WriteBlock(g, block_size, data, uid) ==
    _set_block(g.be,
               [g.files EXCEPT ![g.free.lf] =
                   FileWrite(@, block_size * g.free.block, data)],
               block_size, g.free.lf, g.free.block, uid, Len(data))

\* LargeFileBackend.save(data)
LargeFileBackend_save(be, files, block_size, lf_size, data, uid) ==
    WriteBlock(_get_free_block(be, files, block_size, lf_size), block_size, data, uid)

\* LargeFileBackend.read(uid), the uid a str.
LargeFileBackend_read(be, files, block_size, uid) ==
    IF \E e \in be.index : e.key = StrKey(uid)
    THEN LET e == CHOOSE e \in be.index : e.key = StrKey(uid)
         IN  [ok |-> TRUE, error |-> None,
              data |-> FileRead(files[e.lf], block_size * e.block, e.size)]
    ELSE [ok |-> FALSE, error |-> "FileNotFoundError", data |-> <<>>]

\* LargeFileBackend.rm(uid)
LargeFileBackend_rm(be, files, uid) ==
    [ok |-> FALSE, error |-> "NotImplementedError"]

RECURSIVE OpenLoop(_, _, _, _, _)
RECURSIVE OpenStep(_, _, _, _, _)
\* The second loop of open: _read_index of every file opened.
OpenLoop(be, files, block_size, names, i) ==
    IF i > Len(names) THEN [ok |-> TRUE, error |-> None, be |-> be]
    ELSE OpenStep(_read_index(be, files, block_size, names[i]), files, block_size,
                  names, i)

\* After one _read_index: its exception leaves open, else the next file.
OpenStep(r, files, block_size, names, i) ==
    IF ~r.ok THEN r ELSE OpenLoop(r.be, files, block_size, names, i + 1)

\* _files(): the large files of the path, here in the order of their names.
_files(files) == [i \in 1..Cardinality(DOMAIN files) |-> LfNames[i]]

\* What open leaves behind: the backend is open when nothing was raised.
Opened(r) == [ok |-> r.ok, error |-> r.error, be |-> [r.be EXCEPT !.open = r.ok]]

\* LargeFileBackend.open() up to its yield.  flock(path + '.lock') is called
\* and its result dropped: the context manager is never entered, so no lock
\* file is made and no IOError comes from it.
LargeFileBackend_open(be, files, block_size) ==
    Opened(OpenLoop([be EXCEPT !.lfs = _files(files)], files, block_size,
                    _files(files), 1))

\* The uids save has returned so far.
LfUids == {LfUid(n) : n \in 1..MaxLfSaves}

\* The large file and the block self.index has for a uid, a str.
SlotOf(be, uid) ==
    LET e == CHOOSE e \in be.index : e.key = StrKey(uid)
    IN  [lf |-> e.lf, block |-> e.block]

\* A call of process p returns: what it has done to the files, the object and
\* the uids handed out, and what the caller gets.
LfReturn(p, op, uid, r) ==
    lf' = [lf EXCEPT
             !.files = IF op = "save" THEN r.files ELSE @,
             !.be[p] = IF op \in {"open", "save"} /\ r.ok THEN r.be
                       ELSE IF op \in {"open", "close"} THEN NewBackend ELSE @,
             !.minted = IF op = "save" THEN @ + 1 ELSE @,
             !.saved = IF op = "save"
                       THEN @ \cup {[uid |-> uid, data |-> r.data,
                                     slot |-> SlotOf(r.be, uid)]}
                       ELSE @,
             !.known[p] = IF op = "open" THEN {s.uid : s \in lf.saved} ELSE @,
             !.last = [op |-> op, p |-> p, uid |-> uid, ok |-> r.ok, error |-> r.error,
                       data |-> IF op \in {"save", "read"} THEN r.data ELSE <<>>]]

\* A process constructs a LargeFileBackend and enters open().  When open
\* raises, the process is left without a backend.
LfOpen(p) ==
    /\ ~lf.be[p].open
    /\ LfReturn(p, "open", <<>>, LargeFileBackend_open(NewBackend, lf.files, BlockSize))
    /\ UNCHANGED <<versions, blocks, minted, engineVars, block_refcounter, now, dump,
                   imports, yielded, invalidated, utcoffset, fl, sess, gen>>

\* save(data) of a process that has the backend open.
LfSave(p, datas) ==
    /\ lf.be[p].open
    /\ lf.minted < MaxLfSaves
    /\ lf.be[p].free_blocks # <<>> \/ Cardinality(DOMAIN lf.files) < MaxLfs
    /\ \E data \in datas :
          LfReturn(p, "save", LfUid(lf.minted + 1),
                   [ok |-> TRUE, error |-> None, data |-> data]
                      @@ LargeFileBackend_save(lf.be[p], lf.files, BlockSize, LfSize,
                                               data, LfUid(lf.minted + 1)))
    /\ UNCHANGED <<versions, blocks, minted, engineVars, block_refcounter, now, dump,
                   imports, yielded, invalidated, utcoffset, fl, sess, gen>>

\* read(uid) of a process that has the backend open.
LfRead(p) ==
    /\ lf.be[p].open
    /\ \E uid \in LfUids :
          LfReturn(p, "read", uid,
                   LargeFileBackend_read(lf.be[p], lf.files, BlockSize, uid))
    /\ UNCHANGED <<versions, blocks, minted, engineVars, block_refcounter, now, dump,
                   imports, yielded, invalidated, utcoffset, fl, sess, gen>>

\* rm(uid) of a process that has the backend open.
LfRm(p) ==
    /\ lf.be[p].open
    /\ \E uid \in LfUids :
          LfReturn(p, "rm", uid, LargeFileBackend_rm(lf.be[p], lf.files, uid))
    /\ UNCHANGED <<versions, blocks, minted, engineVars, block_refcounter, now, dump,
                   imports, yielded, invalidated, utcoffset, fl, sess, gen>>

\* close(): the files are closed; the process ends and its object with it.
LfClose(p) ==
    /\ lf.be[p].open
    /\ LfReturn(p, "close", <<>>, [ok |-> TRUE, error |-> None])
    /\ UNCHANGED <<versions, blocks, minted, engineVars, block_refcounter, now, dump,
                   imports, yielded, invalidated, utcoffset, fl, sess, gen>>

\* Every byte string save accepts that fits a block.
LfDatas == UNION {[1..n -> Bytes] : n \in 1..BlockSize}

NextLargeFile ==
    \E p \in Procs :
       \/ LfOpen(p)
       \/ LfSave(p, LfDatas)
       \/ LfRead(p)
       \/ LfRm(p)
       \/ LfClose(p)

SpecLargeFile == Init /\ [][NextLargeFile]_vars

\* save(data) when the write of the data comes back short: _get_free_block
\* has run, a part of the data is in the block, RuntimeError is raised and
\* _set_block is not reached.
LfSaveRaises(p, datas) ==
    /\ lf.be[p].open
    /\ lf.be[p].free_blocks # <<>> \/ Cardinality(DOMAIN lf.files) < MaxLfs
    /\ \E data \in datas : \E r \in 0..(Len(data) - 1) :
          LET g == _get_free_block(lf.be[p], lf.files, BlockSize, LfSize)
          IN  lf' = [lf EXCEPT
                       !.files = [g.files EXCEPT ![g.free.lf] =
                                     FileWrite(@, BlockSize * g.free.block,
                                               SubSeq(data, 1, r))],
                       !.be[p] = g.be,
                       !.last = [op |-> "save", p |-> p, uid |-> <<>>, ok |-> FALSE,
                                 error |-> "RuntimeError", data |-> <<>>]]
    /\ UNCHANGED <<versions, blocks, minted, engineVars, block_refcounter, now, dump,
                   imports, yielded, invalidated, utcoffset, fl, sess, gen>>

\* SpecDiskFull: the processes open, save blobs of ones and close, and a save
\* may fail at its write.
NextDiskFull ==
    \E p \in Procs :
       \/ LfOpen(p)
       \/ LfSave(p, {<<1>>})
       \/ LfSaveRaises(p, {<<1>>, <<1, 1>>})
       \/ LfClose(p)

SpecDiskFull == Init /\ [][NextDiskFull]_vars

(***************************************************************************)
(* backy.py: flock.  One path; fl.file says whether the lock file exists.  *)
(* A process in flock is at os.open ("open"), in time.sleep ("sleep") or   *)
(* at the yield, inside the body of the with statement ("body").           *)
(***************************************************************************)
FlockProcs == {1, 2, 3}

\* os.open(path, O_CREAT | O_RDWR): opens the file whether it exists or not.
os_open_no_excl(file) == [ok |-> TRUE, file |-> TRUE]

\* os.open(path, O_CREAT | O_EXCL | O_RDWR): creates the file, or fails with
\* EEXIST when it exists; the file system does both in one step.
os_open(file) == [ok |-> ~file, file |-> TRUE]

flVars == <<versions, blocks, minted, engineVars, block_refcounter, now, dump, imports,
            yielded, invalidated, utcoffset, lf, sess, gen>>

\* A process calls flock(path, blocking=...) in a with statement.
FlockEnter(p) ==
    /\ fl.proc[p].pc = "idle"
    /\ \E blocking \in BOOLEAN :
          fl' = [fl EXCEPT !.proc[p] = [pc |-> "open", blocking |-> blocking,
                                        error |-> None]]
    /\ UNCHANGED flVars

\* os.open succeeds: the loop is left and the body runs.
FlockAcquire(p) ==
    /\ fl.proc[p].pc = "open"
    /\ os_open(fl.file).ok
    /\ fl' = [fl EXCEPT !.file = os_open(fl.file).file, !.proc[p].pc = "body"]
    /\ UNCHANGED flVars

\* os.open raises OSError with EEXIST: a blocking call goes to sleep, a
\* non-blocking call raises it to the caller.
FlockBusy(p) ==
    /\ fl.proc[p].pc = "open"
    /\ ~os_open(fl.file).ok
    /\ fl' = [fl EXCEPT !.proc[p] =
                 IF @.blocking THEN [@ EXCEPT !.pc = "sleep"]
                 ELSE [@ EXCEPT !.pc = "idle", !.error = "OSError"]]
    /\ UNCHANGED flVars

\* time.sleep(wait_delay); continue
FlockSleep(p) ==
    /\ fl.proc[p].pc = "sleep"
    /\ fl' = [fl EXCEPT !.proc[p].pc = "open"]
    /\ UNCHANGED flVars

\* The body ends, by its last statement or by an exception: finally,
\* os.unlink(path).
FlockLeave(p) ==
    /\ fl.proc[p].pc = "body"
    /\ \E raised \in BOOLEAN :
          fl' = [fl EXCEPT !.file = FALSE,
                           !.proc[p] = [@ EXCEPT !.pc = "idle",
                                          !.error = IF raised THEN "Exception" ELSE None]]
    /\ UNCHANGED flVars

NextFlock ==
    \E p \in FlockProcs :
       \/ FlockEnter(p)
       \/ FlockAcquire(p)
       \/ FlockBusy(p)
       \/ FlockSleep(p)
       \/ FlockLeave(p)

SpecFlock == Init /\ [][NextFlock]_vars

\* A process inside the loop of flock is not stopped for ever: its sleep
\* ends and its os.open returns.  Nothing makes a process call flock or leave
\* the body.
SpecFlockFair ==
    /\ SpecFlock
    /\ \A p \in FlockProcs :
          /\ WF_vars(FlockSleep(p))
          /\ WF_vars(FlockBusy(p))
          /\ WF_vars(FlockAcquire(p))

(***************************************************************************)
(* sql.py: set_block on its insert path, by the statements that reach the  *)
(* database, for two sessions.  The tables are what is committed;          *)
(* pending_blocks and pending_refs are what a session's open transaction   *)
(* holds.                                                                  *)
(***************************************************************************)
Sessions == {1, 2}
SessUids == {None, UidNames[1], UidNames[2]}

\* session.commit(): the pending rows and the pending UPDATEs of refs go to
\* the tables.
session_commit(db, ses, t) ==
    [db EXCEPT
       !.blocks = ses.pending_blocks @@ @,
       !.rc = [uid \in DOMAIN @ |->
                 IF uid \in DOMAIN ses.pending_refs
                 THEN [refs |-> @[uid].refs + ses.pending_refs[uid], modified |-> t]
                 ELSE @[uid]]]

\* session.rollback(): the transaction is dropped, and the objects added in
\* it leave the session.
session_rollback(ses) ==
    [ses EXCEPT !.pending_blocks = EmptyTable, !.pending_refs = EmptyTable]

\* UPDATE block_refcounter SET refs = refs + 1 WHERE uid = ...: the number of
\* rows it finds, and the transaction after it.
ref_add_update(db, ses, uid) ==
    IF uid \in DOMAIN db.rc
    THEN [res |-> 1,
          ses |-> [ses EXCEPT !.pending_refs =
                      IF uid \in DOMAIN @ THEN [@ EXCEPT ![uid] = @ + 1]
                      ELSE @ @@ (uid :> 1)]]
    ELSE [res |-> 0, ses |-> ses]

sessVars == <<versions, minted, engineVars, now, dump, imports, yielded, invalidated,
              utcoffset, lf, fl, gen>>

\* set_block(id, version_uid, block_uid, ..., _commit, _upsert=False) up to
\* session.add(block); a sparse block (uid None) has no ref_add.
SbAdd(s) ==
    /\ sess[s].pc = "idle"
    /\ sess[s].calls < MaxSetBlocks
    /\ \E uid \in SessUids, _commit \in BOOLEAN :
          LET key == <<VersionUidNames[s], sess[s].calls>>
          IN  sess' = [sess EXCEPT ![s] =
                 [@ EXCEPT
                    !.pc = IF Truthy(uid) THEN "added" ELSE "final",
                    !.call = [key |-> key, uid |-> uid, _commit |-> _commit],
                    !.pending_blocks = @ @@ (key :>
                        [uid |-> uid,
                         checksum |-> IF Truthy(uid) THEN HashNames[1] ELSE None,
                         size |-> 1, valid |-> 1]),
                    !.calls = @ + 1,
                    !.last = "set_block"]]
    /\ UNCHANGED <<blocks, block_refcounter, sessVars>>

\* ref_add: the UPDATE; with one row updated ref_add returns.
SbRefUpdate(s) ==
    /\ sess[s].pc = "added"
    /\ LET r == ref_add_update(DB, sess[s], sess[s].call.uid)
       IN  sess' = [sess EXCEPT ![s] =
                      [r.ses EXCEPT !.pc = IF r.res = 1 THEN "final" ELSE "insert"]]
    /\ UNCHANGED <<blocks, block_refcounter, sessVars>>

\* ref_add: session.add(block_refcounter); session.commit().  When no row
\* of the uid is there the transaction is committed with the new row;
\* else IntegrityError: session.rollback() and the UPDATE again.
SbRefInsert(s) ==
    /\ sess[s].pc = "insert"
    /\ LET uid == sess[s].call.uid
       IN  IF uid \notin DOMAIN block_refcounter
           THEN /\ Commit([session_commit(DB, sess[s], now) EXCEPT
                             !.rc = @ @@ (uid :> [refs |-> 1, modified |-> now])])
                /\ sess' = [sess EXCEPT ![s] =
                               [session_rollback(@) EXCEPT !.pc = "final"]]
           ELSE /\ sess' = [sess EXCEPT ![s] =
                               [ref_add_update(DB, session_rollback(@), uid).ses
                                  EXCEPT !.pc = "final"]]
                /\ UNCHANGED <<blocks, block_refcounter>>
    /\ UNCHANGED sessVars

\* The end of set_block: self.session.commit(), whatever _commit is, and
\* the call returns.
SbReturn(s) ==
    /\ sess[s].pc = "final"
    /\ Commit(session_commit(DB, sess[s], now))
    /\ sess' = [sess EXCEPT ![s] =
                   [session_rollback(@) EXCEPT
                      !.pc = "idle",
                      !.returned = @ \cup {sess[s].call.key}]]
    /\ UNCHANGED sessVars

\* _commit(): session.commit()
SessCommit(s) ==
    /\ sess[s].pc = "idle"
    /\ sess[s].last = "set_block"
    /\ Commit(session_commit(DB, sess[s], now))
    /\ sess' = [sess EXCEPT ![s] = [session_rollback(@) EXCEPT !.last = "_commit"]]
    /\ UNCHANGED sessVars

NextSessions ==
    \E s \in Sessions :
       \/ SbAdd(s)
       \/ SbRefUpdate(s)
       \/ SbRefInsert(s)
       \/ SbReturn(s)
       \/ SessCommit(s)

SpecSessions == Init /\ [][NextSessions]_vars

\* The number of block rows that hold uid u.
RowsWithUid(u) == Cardinality({k \in DOMAIN blocks : blocks[k].uid = u})

\* C1: after any sequence of set_block and rm_version calls, every row of the
\* refcount table counts exactly the block rows that hold its uid, and every
\* non-null uid of a block row has a refcount row.
C1_RefsCountBlockRows ==
    /\ \A u \in DOMAIN block_refcounter : block_refcounter[u].refs = RowsWithUid(u)
    /\ \A k \in DOMAIN blocks :
          blocks[k].uid # None => blocks[k].uid \in DOMAIN block_refcounter

\* A uid shared by several block rows next to a uid that lost all its rows,
\* with a sparse row present.
C1_Witness ==
    /\ \E u \in DOMAIN block_refcounter : block_refcounter[u].refs >= 2
    /\ \E u \in DOMAIN block_refcounter : block_refcounter[u].refs = 0
    /\ \E k \in DOMAIN blocks : blocks[k].uid = None


\* C3: after completed backup, rm and cleanup operations with the blob store
\* touched by the program alone, every block row with a uid has a blob under
\* that uid whose hash is the row's checksum and whose length is the row's size.
C3_BlockRowsHaveTheirBlob ==
    job = NoJob =>
       \A k \in DOMAIN blocks :
          blocks[k].uid # None =>
             /\ blocks[k].uid \in DOMAIN blobs
             /\ HASH_FUNCTION(blobs[blocks[k].uid]) = blocks[k].checksum
             /\ Len(blobs[blocks[k].uid]) = blocks[k].size

\* A version was removed and cleanup has removed a blob, while another
\* version still holds blobs.
C3_Witness ==
    /\ job = NoJob
    /\ minted = MaxVersions
    /\ Cardinality(DOMAIN versions) = 1
    /\ Cardinality(DOMAIN blobs) < blob_minted
    /\ \E k \in DOMAIN blocks : blocks[k].uid # None

BackupCompletes == job.phase = "blocks" /\ job'.phase = "none" /\ job.next > Len(job.rows)
BackupAborts == job.phase = "blocks" /\ job'.phase = "none" /\ job.next <= Len(job.rows)

\* C5: the version of a running backup is invalid; when the backup completes
\* the version becomes valid and every block that had to be read has a valid
\* row whose blob is saved; when the backup aborts (end of file on the source)
\* the version is still there and invalid.
C5_ValidOnlyAfterBackup ==
    [][/\ job'.phase = "blocks" =>
             /\ job'.version_uid \in DOMAIN versions'
             /\ versions'[job'.version_uid].valid = 0
       /\ BackupCompletes =>
             /\ versions'[job.version_uid].valid = 1
             /\ \A i \in 1..Len(job.rows) :
                   job.rows[i].id \in job.read_blocks =>
                      LET row == blocks'[<<job.version_uid, job.rows[i].id>>]
                      IN  /\ row.valid = 1
                          /\ row.uid \in DOMAIN blobs'
                          /\ HASH_FUNCTION(blobs'[row.uid]) = row.checksum
       /\ BackupAborts =>
             /\ job.version_uid \in DOMAIN versions'
             /\ versions'[job.version_uid].valid = 0
      ]_vars

\* A backup was given up at the end of its source and left its version
\* invalid, next to a version of a backup that completed.
C5_Witness ==
    /\ job = NoJob
    /\ \E v \in DOMAIN versions : versions[v].valid = 0 /\ ~history[v].stable
    /\ \E v \in DOMAIN versions : versions[v].valid = 1 /\ versions[v].size > 1

\* A row whose blob cannot be read as the row describes it: the blob is
\* missing, or its length is not the row's size.
Unreadable(row) ==
    /\ Truthy(row.uid)
    /\ row.uid \notin DOMAIN blobs \/ Len(blobs[row.uid]) # row.size

\* A row whose blob has the row's size and another hash than the row's checksum.
HashMismatch(row) ==
    /\ Truthy(row.uid)
    /\ row.uid \in DOMAIN blobs
    /\ Len(blobs[row.uid]) = row.size
    /\ HASH_FUNCTION(blobs[row.uid]) # row.checksum

\* In db every block row with that (uid, checksum) is invalid, and so is its version.
MarkedInvalid(db, uid, checksum) ==
    \A k \in DOMAIN db.blocks :
       (db.blocks[k].uid = uid /\ db.blocks[k].checksum = checksum) =>
          db.blocks[k].valid = 0 /\ db.versions[k[1]].valid = 0

Aborted(status) == status \in {"FileNotFoundError", "AssertionError"}

\* C6: the dedup lookup of a backup never takes a row with valid=0: no step
\* stores, in a new block row or as the new uid of a row, a uid that a row
\* with valid=0 holds.
C6_InvalidUidNeverReused ==
    [][\A k \in DOMAIN blocks' :
          (/\ blocks'[k].uid # None
           /\ k \notin DOMAIN blocks \/ blocks[k].uid # blocks'[k].uid) =>
             ~ \E j \in DOMAIN blocks :
                  blocks[j].uid = blocks'[k].uid /\ blocks[j].valid = 0
      ]_vars

\* C8: when a blob of a version has other bytes of the same length, scrub of
\* the version with percentile 100 returns false, every version with a block
\* of that (uid, checksum) is invalid afterwards and is refused as the base of
\* a backup, and no invalid version is valid after the scrub.
C8_ScrubFindsChangedBlob ==
    job = NoJob =>
       \A v \in DOMAIN versions :
          LET rows == SQLBackend_get_blocks_by_version(DB, v)
              s == scrub(DB, blobs, v, FALSE, <<>>, {})
          IN  \A i \in 1..Len(rows) :
                 HashMismatch(rows[i]) =>
                    /\ s.status = "ok"
                    /\ s.state = FALSE
                    /\ MarkedInvalid(s.db, rows[i].uid, rows[i].checksum)
                    /\ _prepare_version(s.db, minted + 1, "a", 0, v).status = "RuntimeError"
                    /\ \A w \in DOMAIN versions :
                          versions[w].valid = 0 => s.db.versions[w].valid = 0

\* C9: when restore comes to a block whose blob has another hash than the
\* row's checksum, the target holds the blob's bytes at id * block_size, the
\* rows of that (uid, checksum) and their versions are invalid afterwards, and
\* the restore goes through all remaining blocks.
C9_RestoreContinuesAfterMismatch ==
    job = NoJob =>
       \A v \in DOMAIN versions, sparse \in BOOLEAN :
          LET rows == SQLBackend_get_blocks_by_version(DB, v)
              r == restore(DB, blobs, v, sparse)
          IN  \A i \in 1..Len(rows) :
                 (HashMismatch(rows[i]) /\ \A j \in 1..(i - 1) : ~Unreadable(rows[j])) =>
                    /\ FileRead(r.f, rows[i].id * BlockSize, rows[i].size) = blobs[rows[i].uid]
                    /\ MarkedInvalid(r.db, rows[i].uid, rows[i].checksum)
                    /\ ~Aborted(r.status)

\* C10: when a blob of a version is missing or has another length than the
\* row's size, scrub and restore of the version mark the rows of that
\* (uid, checksum) invalid and go on with the other blocks, and scrub
\* returns false.
C10_UnreadableBlobMarkedInvalid ==
    job = NoJob =>
       \A v \in DOMAIN versions :
          LET rows == SQLBackend_get_blocks_by_version(DB, v)
              s == scrub(DB, blobs, v, FALSE, <<>>, {})
              r == restore(DB, blobs, v, FALSE)
          IN  \A i \in 1..Len(rows) :
                 Unreadable(rows[i]) =>
                    /\ s.status = "ok"
                    /\ s.state = FALSE
                    /\ MarkedInvalid(s.db, rows[i].uid, rows[i].checksum)
                    /\ ~Aborted(r.status)
                    /\ MarkedInvalid(r.db, rows[i].uid, rows[i].checksum)

\* C7: a call set_blocks_invalid(uid, checksum) gives valid=0 to every block
\* row with that uid and checksum, in every version, and to every version that
\* has such a row; it returns exactly the uids of those versions; and it
\* changes no other block row and no other version.
C7_SetBlocksInvalidMarksExactly ==
    [][\A p \in FreePairs :
          (SetBlocksInvalid({p}) \/ SQLBackendSetBlocksInvalid({p})) =>
             LET hit == {k \in DOMAIN blocks :
                           blocks[k].uid = p[1] /\ blocks[k].checksum = p[2]}
                 owners == {k[1] : k \in hit}
             IN  /\ DOMAIN blocks' = DOMAIN blocks
                 /\ \A k \in DOMAIN blocks :
                       IF k \in hit
                       THEN blocks'[k] = [blocks[k] EXCEPT !.valid = 0]
                       ELSE blocks'[k] = blocks[k]
                 /\ DOMAIN versions' = DOMAIN versions
                 /\ \A v \in DOMAIN versions :
                       IF v \in owners
                       THEN versions'[v] = [versions[v] EXCEPT !.valid = 0]
                       ELSE versions'[v] = versions[v]
                 /\ invalidated'.affected = owners
      ]_vars

\* A call has marked rows of two versions; rows of the same uid with another
\* checksum and of the same checksum with another uid are still valid, one of
\* them in a version the call made invalid.
C7_Witness ==
    /\ invalidated # NoCall
    /\ Cardinality(invalidated.affected) = 2
    /\ \A v \in invalidated.affected : versions[v].valid = 0
    /\ \A k \in DOMAIN blocks :
          (blocks[k].uid = invalidated.uid /\ blocks[k].checksum = invalidated.checksum)
             => blocks[k].valid = 0
    /\ \E k \in DOMAIN blocks :
          /\ blocks[k].uid = invalidated.uid
          /\ blocks[k].checksum # invalidated.checksum
          /\ blocks[k].valid = 1
    /\ \E k \in DOMAIN blocks :
          /\ blocks[k].uid # invalidated.uid
          /\ blocks[k].checksum = invalidated.checksum
          /\ blocks[k].valid = 1

\* C2: no run of get_delete_candidates, with any grace value, hands out a uid
\* that a block row of an existing version holds.
C2_ReferencedUidNeverYielded ==
    [][\A dt \in Graces :
          GetDeleteCandidates({dt}) =>
             \A u \in yielded' :
                ~ \E k \in DOMAIN blocks : blocks[k].uid = u /\ k[1] \in DOMAIN versions
      ]_vars

\* C11: a run of get_delete_candidates(dt) hands out a uid only if its
\* refcount row has refs = 0 and was last modified more than dt before the
\* run: a uid whose refs changed less than dt ago is never handed out.
C11_YieldedOnlyAfterGrace ==
    [][\A dt \in Graces :
          GetDeleteCandidates({dt}) =>
             \A u \in yielded' :
                /\ u \in DOMAIN block_refcounter
                /\ block_refcounter[u].refs = 0
                /\ block_refcounter[u].modified < now - dt
      ]_vars

\* C12: in every reachable state of the refcount table, refs is at least 0
\* in every row.
C12_RefsNeverNegative ==
    \A u \in DOMAIN block_refcounter : block_refcounter[u].refs >= 0

\* C13: for every version, export, then rm_version, then import_ of the file
\* gives back the same version row and the same block rows, a null uid and
\* a null checksum included.
C13_ExportImportRoundTrip ==
    \A v \in DOMAIN versions :
       LET f == export(DB, v)
           removed == rm_version(DB, v, now)
           r == import_(removed.db, f)
       IN  removed.ok =>
              /\ r.ok
              /\ r.db.versions = versions
              /\ r.db.blocks = blocks

\* C14: every existing version V has exactly V.size block rows, with the ids
\* 0..V.size-1, and V.size = ceil(V.size_bytes / block_size); a removed
\* version has no block rows left.
C14_VersionsHaveTheirBlockRows ==
    /\ \A v \in DOMAIN versions :
          /\ {k[2] : k \in {k \in DOMAIN blocks : k[1] = v}} = 0..(versions[v].size - 1)
          /\ versions[v].size * BlockSize >= versions[v].size_bytes
          /\ (versions[v].size - 1) * BlockSize < versions[v].size_bytes
                \/ versions[v].size = 0
    /\ \A k \in DOMAIN blocks : k[1] \in DOMAIN versions

\* A version of two blocks for a source that ends in a short block, kept
\* after a backup that was given up, with another version removed.
C14_Witness ==
    /\ job = NoJob
    /\ Cardinality(DOMAIN versions) < minted
    /\ \E v \in DOMAIN versions :
          /\ versions[v].size = 2
          /\ versions[v].size_bytes = BlockSize + 1
          /\ versions[v].valid = 0
          /\ ~history[v].stable

\* C15: in every version, after _prepare_version and after backup, every
\* block but the last has size = block_size and the last block has
\* size = size_bytes - (size - 1) * block_size.
C15_BlockSizesFitTheVersion ==
    \A k \in DOMAIN blocks :
       LET V == versions[k[1]]
       IN  blocks[k].size = IF k[2] < V.size - 1 THEN BlockSize
                            ELSE V.size_bytes - (V.size - 1) * BlockSize

\* The step of a backup in which _prepare_version has written the new version.
VersionPrepared == job = NoJob /\ job' # NoJob

\* C16: _prepare_version with a valid base gives block i of the new version
\* the base block i's (uid, checksum, size, valid) for every i below the
\* base's number of blocks, except that a block whose size is cut to the
\* remainder of the source gets a null uid and checksum and valid=1; every
\* block at or beyond the base's number of blocks, and every block when there
\* is no base, is sparse-valid (null uid, null checksum, valid=1).
C16_PreparedFromBase ==
    [][VersionPrepared =>
          LET v == job'.version_uid
              base == history'[v].from_version
              old == IF base = None THEN <<>>
                     ELSE SQLBackend_get_blocks_by_version(DB, base)
              size_bytes == versions'[v].size_bytes
          IN  /\ base # None => versions[base].valid = 1
              /\ \A i \in 0..(versions'[v].size - 1) :
                    LET new == blocks'[<<v, i>>]
                        remainder == size_bytes - i * BlockSize
                    IN  IF i >= Len(old)
                        THEN new.uid = None /\ new.checksum = None /\ new.valid = 1
                        ELSE IF remainder < old[i + 1].size
                        THEN /\ new.uid = None /\ new.checksum = None /\ new.valid = 1
                             /\ new.size = remainder
                        ELSE /\ new.uid = old[i + 1].uid
                             /\ new.checksum = old[i + 1].checksum
                             /\ new.size = old[i + 1].size
                             /\ new.valid = old[i + 1].valid
      ]_vars

\* A version just prepared on a base of two full blocks for a source one byte
\* shorter: block 0 has the base's blob, block 1 was cut and is sparse.
C16_Witness ==
    /\ job # NoJob
    /\ job.next = 1
    /\ LET v == job.version_uid
           base == history[v].from_version
       IN  /\ base # None
           /\ versions[base].size_bytes = 2 * BlockSize
           /\ versions[v].size_bytes = 2 * BlockSize - 1
           /\ blocks[<<base, 1>>].uid # None
           /\ blocks[<<v, 0>>].uid = blocks[<<base, 0>>].uid
           /\ blocks[<<v, 0>>].uid # None
           /\ blocks[<<v, 1>>].uid = None
           /\ blocks[<<v, 1>>].size = BlockSize - 1

\* C17: a backup whose from_version is a version that is not valid fails in
\* _prepare_version and leaves the repository as it was: no version row, no
\* block row and no blob is created.
C17_InvalidBaseRefused ==
    job = NoJob =>
       \A from_version \in DOMAIN versions, source \in Sources :
          versions[from_version].valid = 0 =>
             LET p == _prepare_version(DB, minted + 1, "a", Len(source), from_version)
             IN  /\ p.status = "RuntimeError"
                 /\ p.db = DB

\* A version left invalid by a backup that was given up, while another
\* backup can still be started.
C17_Witness ==
    /\ job = NoJob
    /\ minted < MaxVersions
    /\ \E v \in DOMAIN versions : versions[v].valid = 0 /\ versions[v].size > 0

\* C18: a backup with an empty hint list and no base creates blocks that are
\* all sparse-valid, with the sizes block_size and, for the last one, the
\* remainder; it marks the version valid and writes no blob.  (<<>> is the
\* hint list that `if hints:` takes as false: the empty list, and None.)
C18_EmptyHintsReadNothing ==
    job = NoJob =>
       /\ \A v \in DOMAIN versions :
             (history[v].hints = <<>> /\ history[v].from_version = None) =>
                /\ versions[v].valid = 1
                /\ \A k \in DOMAIN blocks :
                      k[1] = v =>
                         /\ blocks[k].uid = None
                         /\ blocks[k].checksum = None
                         /\ blocks[k].valid = 1
                         /\ blocks[k].size = Min(BlockSize,
                                                versions[v].size_bytes - k[2] * BlockSize)
       /\ (\A v \in DOMAIN versions :
              history[v].hints = <<>> /\ history[v].from_version = None)
             => blob_minted = 0

\* A version whose backup ran to its end.
BackupDone(v) ==
    /\ v \in DOMAIN versions
    /\ versions[v].valid = 1
    /\ job = NoJob \/ job.version_uid # v

\* The byte at 0-based offset o lies inside a hint with exists = TRUE.
InExistingHint(hints, o) ==
    \E h \in 1..Len(hints) :
       hints[h][3] = TRUE /\ hints[h][1] <= o /\ o < hints[h][1] + hints[h][2]

\* Every block that the hints with exists = FALSE name, and that no hint with
\* exists = TRUE names, holds only zero bytes in the source.
SparseHintsTruthful(source, hints) ==
    \A id \in blocks_from_hints(HintsWhere(hints, FALSE), BlockSize)
               \ blocks_from_hints(HintsWhere(hints, TRUE), BlockSize) :
       \A o \in (id * BlockSize)..(id * BlockSize + BlockSize - 1) :
          o < Len(source) => source[o + 1] = 0

\* C19: an incremental backup on a valid base with a non-empty hint list, where
\* every offset below the new source size at which the source differs from the
\* base's content lies inside a hint with exists = TRUE, restores to its
\* source.  The base's content is what the base restores to, which here is also
\* the source the base was taken from; the hints with exists = FALSE are
\* truthful.
C19_IncrementalRestoresSource ==
    \A v \in DOMAIN versions :
       LET h == history[v]
           base == h.from_version
           content == restore(DB, blobs, base, FALSE).f
       IN  (/\ BackupDone(v)
            /\ h.hints # <<>>
            /\ base # None
            /\ BackupDone(base)
            /\ content = history[base].source
            /\ SparseHintsTruthful(h.source, h.hints)
            /\ \A o \in 0..(Len(h.source) - 1) :
                  (o >= Len(content) \/ h.source[o + 1] # content[o + 1])
                     => InExistingHint(h.hints, o))
           => restore(DB, blobs, v, FALSE).f = h.source

\* A pass of backup's loop that went on to the next block.
LoopPass ==
    /\ job.phase = "blocks"
    /\ job' # NoJob
    /\ job'.version_uid = job.version_uid
    /\ job'.next = job.next + 1

\* Block rows hold uid and none of them is marked invalid: if the blob was
\* changed from outside, the program has not seen it yet.
NotKnownBad(uid) ==
    /\ \E k \in DOMAIN blocks : blocks[k].uid = uid
    /\ \A k \in DOMAIN blocks : blocks[k].uid = uid => blocks[k].valid = 1

\* C20: each pass of backup's loop handles its block by exactly one rule.  A
\* block in read_blocks or not valid is read from the source, and its row
\* becomes (uid of a blob holding that data, hash of the data, length of the
\* data, valid = 1), also when it is in sparse_blocks too; else a block in
\* sparse_blocks gets a null uid, a null checksum and valid = 1; else the row
\* stays as _prepare_version wrote it.  No other row changes.  (A blob that was
\* changed from outside and that no row marks as bad is not held against the
\* rule.)
C20_LoopRulesInOrder ==
    [][LoopPass =>
         LET block == job.rows[job.next]
             key == <<job.version_uid, block.id>>
             data == FileRead(job.source, block.id * BlockSize, BlockSize)
             row == blocks'[key]
         IN  /\ DOMAIN blocks' = DOMAIN blocks
             /\ \A k \in DOMAIN blocks \ {key} : blocks'[k] = blocks[k]
             /\ IF block.id \in job.read_blocks \/ blocks[key].valid = 0
                THEN /\ row.checksum = HASH_FUNCTION(data)
                     /\ row.size = Len(data)
                     /\ row.valid = 1
                     /\ Truthy(row.uid)
                     /\ ~NotKnownBad(row.uid)
                           => row.uid \in DOMAIN blobs' /\ blobs'[row.uid] = data
                ELSE IF block.id \in job.sparse_blocks
                THEN row.uid = None /\ row.checksum = None /\ row.valid = 1
                ELSE /\ row = blocks[key]
                     /\ row = [uid |-> block.uid, checksum |-> block.checksum,
                               size |-> block.size, valid |-> block.valid]
      ]_vars

\* Every hint <<offset, length, exists>> ends at or before size bytes.
HintsFit(hints, size) == \A h \in 1..Len(hints) : hints[h][1] + hints[h][2] <= size

\* C21: a call of backup whose hint list has a hint with offset + length
\* beyond the source size creates nothing: a step from the idle state that
\* changes a version row, a block row or a blob is the start of a backup whose
\* hints all fit its source.
C21_HintsBeyondSourceRejected ==
    [][job = NoJob =>
         \/ UNCHANGED <<versions, blocks, blobs>>
         \/ \E v \in DOMAIN versions' \ DOMAIN versions :
               HintsFit(history'[v].hints, Len(history'[v].source))
      ]_vars

\* A backup can be called on a store that holds a version whose hint ends
\* exactly at the end of its source, and a hint list beyond some source exists.
C21_Witness ==
    /\ job = NoJob
    /\ minted < MaxVersions
    /\ \E source \in TwoBlockSources, hints \in HintLists :
          HintsBeyondSource(hints, Len(source))
    /\ \E v \in DOMAIN versions :
          /\ history[v].hints # <<>>
          /\ \E h \in 1..Len(history[v].hints) :
                history[v].hints[h][1] + history[v].hints[h][2] = Len(history[v].source)

\* Block id of version v, made with hints on a base, is in neither read_blocks
\* nor sparse_blocks, carries a uid, and its checksum is not the hash of the
\* source's bytes at that block.
HintMismatch(v, id) ==
    LET h == history[v]
        row == blocks[<<v, id>>]
    IN  /\ h.hints # <<>>
        /\ h.from_version # None
        /\ id \notin blocks_from_hints(HintsWhere(h.hints, TRUE), BlockSize)
        /\ id \notin blocks_from_hints(HintsWhere(h.hints, FALSE), BlockSize)
        /\ Truthy(row.uid)
        /\ row.checksum # HASH_FUNCTION(FileRead(h.source, id * BlockSize, BlockSize))

\* C22: an incremental backup with hints, in which a block outside read_blocks
\* and sparse_blocks that carries a uid differs in the source from its stored
\* checksum, aborts, and the version it created no longer exists: no version
\* whose backup has ended has such a block.
C22_HintMismatchRemovesVersion ==
    \A v \in DOMAIN versions :
       (job = NoJob \/ job.version_uid # v) =>
          \A id \in 0..(versions[v].size - 1) : ~HintMismatch(v, id)

\* floor(x / B) <= i, with floor taken by its definition: the n with
\* n * B <= x < (n + 1) * B.
FloorAtMost(x, B, i) == \E n \in 0..x : n * B <= x /\ x < (n + 1) * B /\ n <= i

\* i < ceil(x / B), with ceil taken by its definition: the n with
\* (n - 1) * B < x <= n * B.
BelowCeil(x, B, i) == \E n \in 0..x : (n - 1) * B < x /\ x <= n * B /\ i < n

\* C23: blocks_from_hints(hints, B) is exactly the set of the i with
\* floor(offset / B) <= i < ceil((offset + length) / B) for some hint; it holds
\* the block of every byte of a hinted range, is the union over the hints, and
\* is {0} for the hint (0, B - 1) and {0, 1} for the hint (B - 1, 2).
C23_BlocksFromHints ==
    job.phase = "blocks_from_hints" =>
       LET hints == job.hints
           B == job.block_size
           hint(h) == hints[h]
       IN  /\ \A i \in 0..(MaxHintOffset + MaxHintLength + 1) :
                 i \in job.blocks <=>
                    \E h \in 1..Len(hints) :
                       /\ FloorAtMost(hint(h)[1], B, i)
                       /\ BelowCeil(hint(h)[1] + hint(h)[2], B, i)
           /\ job.blocks \subseteq 0..(MaxHintOffset + MaxHintLength + 1)
           /\ \A h \in 1..Len(hints) :
                 \A o \in hint(h)[1]..(hint(h)[1] + hint(h)[2] - 1) :
                    \E i \in job.blocks : i * B <= o /\ o < (i + 1) * B
           /\ job.blocks = UNION {blocks_from_hints(<<hint(h)>>, B) : h \in 1..Len(hints)}
           /\ (Len(hints) = 1 /\ hint(1)[1] = 0 /\ hint(1)[2] = B - 1) => job.blocks = {0}
           /\ (Len(hints) = 1 /\ hint(1)[1] = B - 1 /\ hint(1)[2] = 2) => job.blocks = {0, 1}

\* A call with two overlapping hints, one across the block boundary and one
\* that ends just before it, returned both blocks.
C23_Witness ==
    /\ job.phase = "blocks_from_hints"
    /\ job.hints = <<(<<job.block_size - 1, 2, TRUE>>), (<<0, job.block_size - 1, FALSE>>)>>
    /\ job.blocks = {0, 1}

\* C24: in a sequence of backups, blocks with the same content share one uid
\* and the data backend holds one blob for that content; a pass of backup's
\* loop saves a new blob only when no valid block row with the checksum and
\* size of the data exists.
C24_OneBlobPerContent ==
    [][/\ \A u, w \in DOMAIN blobs' : blobs'[u] = blobs'[w] => u = w
       /\ \A k, j \in DOMAIN blocks' :
             (blocks'[k].checksum # None /\ blocks'[k].checksum = blocks'[j].checksum)
                => blocks'[k].uid = blocks'[j].uid
       /\ \A k \in DOMAIN blocks' :
             blocks'[k].uid # None =>
                /\ blocks'[k].uid \in DOMAIN blobs'
                /\ HASH_FUNCTION(blobs'[blocks'[k].uid]) = blocks'[k].checksum
       /\ \A u \in DOMAIN blobs' \ DOMAIN blobs :
             ~ \E k \in DOMAIN blocks :
                  /\ blocks[k].valid = 1
                  /\ blocks[k].checksum = HASH_FUNCTION(blobs'[u])
                  /\ blocks[k].size = Len(blobs'[u])
      ]_vars

\* Two finished versions hold blocks of one content under one uid, one of them
\* twice, and another content has its own blob.
C24_Witness ==
    /\ job = NoJob
    /\ Cardinality(DOMAIN blobs) = 2
    /\ \E k, j, l \in DOMAIN blocks :
          /\ k[1] # j[1]
          /\ l[1] = k[1] /\ l[2] # k[2]
          /\ blocks[k].uid # None
          /\ blocks[k].uid = blocks[j].uid
          /\ blocks[k].uid = blocks[l].uid

\* The reference count of uid in the table rc; a uid without a row counts 0.
Refs(rc, uid) == IF uid \in DOMAIN rc THEN rc[uid].refs ELSE 0

\* 1 when uid is the non-null uid named, else 0.
One(uid, named) == IF Truthy(named) /\ uid = named THEN 1 ELSE 0

\* C25: set_block on an existing row with another uid takes one from the old
\* uid's refcount and adds one to the new uid's (a new refcount row starts at
\* 1), a null uid being skipped; with the same uid it changes no refcount; and
\* a set_block that inserts a row adds one to the refcount of its non-null uid.
C25_SetBlockMovesOneRef ==
    \A version_uid \in DOMAIN versions, id \in MetaIds, p \in TiedPairs, upsert \in BOOLEAN :
       LET key == <<version_uid, id>>
           exists == key \in DOMAIN blocks
           old == IF exists THEN blocks[key].uid ELSE None
           r == set_block(DB, id, version_uid, p[1], p[2], 1, 1, upsert, now)
       IN  (upsert \/ ~exists) =>
              /\ r.ok
              /\ r.db.blocks[key].uid = p[1]
              /\ \A uid \in DOMAIN block_refcounter \cup DOMAIN r.db.rc \cup {p[1]} :
                    Refs(r.db.rc, uid) =
                       IF exists /\ old = p[1] THEN Refs(block_refcounter, uid)
                       ELSE Refs(block_refcounter, uid) + One(uid, p[1]) - One(uid, old)
              /\ DOMAIN r.db.rc = DOMAIN block_refcounter
                                     \cup (IF Truthy(p[1]) /\ ~(exists /\ old = p[1])
                                           THEN {p[1]} ELSE {})

\* C26: ref_del of a non-null uid without a refcount row raises and changes
\* no refcount row; and when rm_version fails that way, nothing of the call is
\* committed, also not when the session is closed afterwards.
C26_FailedRmVersionCommitsNothing ==
    /\ \A uid \in {UidNames[1], UidNames[2]} \ DOMAIN block_refcounter :
          LET del == ref_del(block_refcounter, uid, now)
          IN  ~del.ok /\ del.rc = block_refcounter
    /\ \A version_uid \in DOMAIN versions :
          LET r == rm_version(DB, version_uid, now)
          IN  ~r.ok => close(r.db) = DB

\* C27: rm of a version deletes its version row and all its block rows, takes
\* from the refcount of each non-null uid one per block row of the version
\* that held it, and leaves every other version's row and block rows as they
\* were; rm of a version that does not exist fails and changes nothing.  (The
\* meta backend has no access to the blobs.)
C27_RmRemovesOneVersion ==
    \A version_uid \in {VersionUidNames[n] : n \in 1..MaxVersions} :
       LET r == rm(DB, version_uid, now)
           held(uid) == {k \in DOMAIN blocks : k[1] = version_uid /\ blocks[k].uid = uid}
       IN  IF version_uid \notin DOMAIN versions
           THEN ~r.ok /\ close(r.db) = DB
           ELSE /\ r.ok
                /\ DOMAIN r.db.versions = DOMAIN versions \ {version_uid}
                /\ \A v \in DOMAIN r.db.versions : r.db.versions[v] = versions[v]
                /\ DOMAIN r.db.blocks = {k \in DOMAIN blocks : k[1] # version_uid}
                /\ \A k \in DOMAIN r.db.blocks : r.db.blocks[k] = blocks[k]
                /\ DOMAIN r.db.rc = DOMAIN block_refcounter
                /\ \A uid \in DOMAIN block_refcounter :
                      r.db.rc[uid].refs = block_refcounter[uid].refs - Cardinality(held(uid))

\* C28: cleanup, run with no other operation in progress, removes exactly the
\* blobs whose uid no block row of any version holds: a step that takes blobs
\* away without outside damage leaves the blobs whose uid is a block uid, with
\* their bytes, and changes no row.
C28_CleanupRemovesUnreferenced ==
    [][(DOMAIN blobs' # DOMAIN blobs /\ DOMAIN blobs' \subseteq DOMAIN blobs
          /\ damaged' = damaged) =>
         /\ job = NoJob
         /\ DOMAIN blobs' = DOMAIN blobs \cap {blocks[k].uid : k \in DOMAIN blocks}
         /\ \A uid \in DOMAIN blobs' : blobs'[uid] = blobs[uid]
         /\ UNCHANGED <<versions, blocks>>
      ]_vars

\* Blobs were removed by cleanup while a version that is not valid holds a
\* blob, which is still there.
C28_Witness ==
    /\ job = NoJob
    /\ Cardinality(DOMAIN blobs) + damaged < blob_minted
    /\ \E k \in DOMAIN blocks :
          /\ versions[k[1]].valid = 0
          /\ blocks[k].uid \in DOMAIN blobs

\* C29: restore of a version gives a target of exactly size_bytes bytes with
\* sparse false and true; the region of a sparse block reads as zeros and the
\* region of a block with a uid holds the bytes of its blob; the trailing zero
\* byte is written only when the final block is sparse.
C29_RestoreLengthIsSizeBytes ==
    \A v \in DOMAIN versions, sparse \in BOOLEAN :
       (job = NoJob \/ job.version_uid # v) =>
          LET rows == SQLBackend_get_blocks_by_version(DB, v)
              loop == RestoreLoop(DB, blobs, rows, 1, <<>>, 0, sparse)
              f == restore(DB, blobs, v, sparse).f
          IN  /\ Len(f) = versions[v].size_bytes
              /\ \A i \in 1..Len(rows) :
                    \A o \in 1..rows[i].size :
                       LET at == rows[i].id * BlockSize + o
                       IN  /\ at <= Len(f)
                           /\ f[at] = IF Truthy(rows[i].uid)
                                      THEN blobs[rows[i].uid][o] ELSE 0
              /\ (loop.status = "ok" /\ loop.tell # versions[v].size_bytes)
                    => rows # <<>> /\ ~Truthy(rows[Len(rows)].uid)

\* Row block of a version is looked at by scrub and its blob is there with
\* the size and the checksum of the row.
BlobSound(block, skip) ==
    (Truthy(block.uid) /\ block.id \notin skip) =>
       /\ block.uid \in DOMAIN blobs
       /\ Len(blobs[block.uid]) = block.size
       /\ HASH_FUNCTION(blobs[block.uid]) = block.checksum

C31_ImportRefused ==
    dump # NoFile =>
       \A f \in {dump, OtherSignature(dump)} :
          (f.signature # Signature \/ f.version[1] \in DOMAIN versions) =>
             LET r == import_(DB, f)
             IN  ~r.ok /\ close(r.db) = DB

\* The dump's version was removed and imported again and its row was changed
\* since, so the dump differs from the version that exists.
C31_Witness ==
    /\ dump # NoFile
    /\ imports > 0
    /\ dump.version[1] \in DOMAIN versions
    /\ export(DB, dump.version[1]) # dump
    /\ block_refcounter # EmptyTable

\* The uids save has returned and rm has not removed (rm removes nothing).
LfStored == {s.uid : s \in lf.saved}

\* The bytes save was given for a uid it returned.
LfSavedData(uid) == (CHOOSE s \in lf.saved : s.uid = uid).data

\* C32: for the large-file backend as for every data backend, save(X) returns
\* a uid no blob has, read(U) returns X for as long as U is stored whatever is
\* saved later, and read or rm of a uid that is not stored fails with
\* FileNotFoundError.
C32_DataBackendContract ==
    /\ lf.last.op = "save" =>
          \A s \in lf.saved : s.uid = lf.last.uid => s.data = lf.last.data
    /\ \A p \in Procs : \A uid \in LfStored :
          lf.be[p].open =>
             LET r == LargeFileBackend_read(lf.be[p], lf.files, BlockSize, uid)
             IN  r.ok /\ r.data = LfSavedData(uid)
    /\ (lf.last.op \in {"read", "rm"} /\ lf.last.uid \notin LfStored) =>
          lf.last.error = "FileNotFoundError"

\* The processes inside the body of their with statement.
FlockHolders == {p \in FlockProcs : fl.proc[p].pc = "body"}

\* A process waits in a blocking call.
FlockWaits(p) == fl.proc[p].pc \in {"open", "sleep"} /\ fl.proc[p].blocking

C34_InvalidationAtomic ==
    \A k \in DOMAIN blocks :
       (k[1] \in DOMAIN versions /\ versions[k[1]].valid = 1) => blocks[k].valid = 1

\* Every session is between two calls and has nothing pending.
SessionsQuiet ==
    \A s \in Sessions :
       sess[s].pc = "idle" /\ sess[s].pending_blocks = EmptyTable
          /\ sess[s].pending_refs = EmptyTable

\* C35: when the set_block calls of two sessions that insert block rows of
\* one uid have returned, the row of every call exists and the refs of the
\* uid count the rows: a collision on the primary key in ref_add loses neither
\* an increment nor the block row of the session that collided.
C35_ConcurrentSetBlockKeepsRows ==
    SessionsQuiet =>
       /\ \A s \in Sessions : sess[s].returned \subseteq DOMAIN blocks
       /\ \A uid \in DOMAIN block_refcounter :
             block_refcounter[uid].refs = RowsWithUid(uid)

\* C36: after set_block(..., _commit=False) has returned, and before the
\* session commits, flushes or closes, the block row is not committed.
C36_NoCommitDefersRow ==
    \A s \in Sessions :
       (sess[s].pc = "idle" /\ sess[s].last = "set_block" /\ ~sess[s].call._commit) =>
          sess[s].call.key \notin DOMAIN blocks

\* C37: cleanup does not run beside a backup, so cleanup never removes a blob
\* that backup has saved and not yet recorded: every block row of a valid
\* version that names a blob has its blob.
C37_CleanupKeepsSavedBlobs ==
    /\ job.phase = "saved" => UidNames[blob_minted] \in DOMAIN blobs
    /\ \A k \in DOMAIN blocks :
          (versions[k[1]].valid = 1 /\ Truthy(blocks[k].uid)) =>
             blocks[k].uid \in DOMAIN blobs

\* The uids of all batches the running iteration has handed out.
Harvested == UNION {gen.batches[i] : i \in 1..Len(gen.batches)}

\* C38: an iteration of get_delete_candidates whose consumer resumes after
\* each batch ends; every batch has at least one and at most DeleteBatch
\* uids; the resume deletes exactly the refcount rows of the batch; no uid is
\* in two batches; and at the end no refcount row with refs = 0 that was
\* modified more than the grace before now remains.
C38_BatchesOfDeleteCandidates ==
    /\ [](\A i \in 1..Len(gen.batches) :
             /\ gen.batches[i] # {}
             /\ Cardinality(gen.batches[i]) <= DeleteBatch
             /\ \A j \in 1..Len(gen.batches) :
                   i # j => gen.batches[i] \cap gen.batches[j] = {})
    /\ [][GdcNext =>
            /\ gen.phase = "yielded" =>
                  block_refcounter' =
                     [u \in DOMAIN block_refcounter \ gen.batch |-> block_refcounter[u]]
            /\ gen'.phase = "done" =>
                  \A u \in DOMAIN block_refcounter' :
                     ~(block_refcounter'[u].refs = 0
                         /\ block_refcounter'[u].modified < now' - gen'.dt)]_vars
    /\ (gen.phase \in {"called", "yielded"}) ~> (gen.phase = "done")

\* An iteration of two batches has ended and has deleted three rows.
C38_Witness ==
    /\ gen.phase = "done"
    /\ Len(gen.batches) = 2
    /\ Cardinality(Harvested) = 3
    /\ Harvested \cap DOMAIN block_refcounter = {}

\* The slots of the blobs save has returned a uid for.
LfOccupied == {b.slot : b \in lf.saved}

\* C39: a blob saved in the large-file backend survives close and a fresh
\* open: the entry of its slot k is at offset block_size * num_blocks + 42 * k
\* of its large file, every open finds the files in order, a process that
\* opened after the save reads the saved bytes, and no occupied slot is in
\* free_blocks.
C39_SavedBlobSurvivesReopen ==
    /\ \A b \in lf.saved :
          FileRead(lf.files[b.slot.lf],
                   SetBlockOffset_of_layout(BlockSize, Floor(LfSize, BlockSize),
                                            b.slot.block),
                   EntryWidth)
             = pack_entry(b.uid, str_ascii(Len(b.data)))
    /\ lf.last.op = "open" => lf.last.ok
    /\ \A p \in Procs : \A uid \in lf.known[p] :
          lf.be[p].open =>
             LET r == LargeFileBackend_read(lf.be[p], lf.files, BlockSize, uid)
             IN  r.ok /\ r.data = LfSavedData(uid)
    /\ \A p \in Procs : \A i \in 1..Len(lf.be[p].free_blocks) :
          lf.be[p].free_blocks[i] \notin LfOccupied

\* The large files a process has open.
LfOpenFiles(p) ==
    IF lf.be[p].open THEN {lf.be[p].lfs[i] : i \in 1..Len(lf.be[p].lfs)} ELSE {}

\* C40: open() locks the large files it opens: no two processes have the
\* backend open on one large file at a time.
C40_OpenLocksLargeFiles ==
    \A p, q \in Procs : p # q => LfOpenFiles(p) \cap LfOpenFiles(q) = {}

====
